---- MODULE Spec2Model ----
(***************************************************************************)
(* Model of the tattler pipeline of element-of-surprise/auditARG:          *)
(*   readers -> [input] -> pre-processors -> Secrets -> Batcher -> Router   *)
(*   -> processors, and of the Runner that wires and starts it.             *)
(* Every stage is a goroutine; a goroutine is modelled by a program         *)
(* counter and one action per step between two blocking points.             *)
(***************************************************************************)
EXTENDS Integers, Sequences, FiniteSets, Bags, TLC

VARIABLES
    \* ---- channels of data.Entry (tattler.go:71-94) ----
    input,          \* the shared input channel handed to tattler.New
    secretsIn,      \* output of the pre-processing stage (only used when preProcessors # nil)
    batchingIn,     \* output of the redactor, input of the batcher
    \* ---- channel of batching.Batches ----
    routerIn,       \* output of the batcher, input of the router
    \* ---- pre-processing stage (preprocess.Runner) ----
    preProcessors,  \* Runner.preProcessors: "nil" or a sequence of processors
    pp_pc, pp_held, pp_calls,
    \* ---- redaction stage (safety.Secrets) ----
    s_pc, s_in, s_held,
    \* ---- batcher (batching.Batcher) ----
    current,        \* Batcher.current: reference to a Batches map
    heapBatches,    \* the Batches maps: reference -> [EntryType -> reference to a Batch map]
    heapBatch,      \* the Batch maps:   reference -> [UID -> Entry]
    batchesPool,    \* Batcher.batchesPool: references put back by Recycle
    batchPool,      \* Batcher.batchPool
    b_pc, b_held,   \* position of Batcher.run and the Batches being sent by emit
    window,         \* history: entries stored by handleData since the last emission
    consumerHeld,   \* Batches a direct consumer of Batcher.Out has received and not yet recycled
    iter,           \* Batches.Iter: its context, channel and producer goroutine
    \* ---- router (routing.Batches) ----
    routes,         \* Batches.routes
    started,        \* Batches.started
    sinks,          \* the processors' channels, by channel identity
    loops,          \* the handleInput goroutines, one per successful Start
    closers,        \* the closer goroutines, one per successful Start
    drops,          \* the log: number of drop errors logged per sink name
    received,       \* history: per channel, the Batches its processor has received
    ctx,            \* the context handed to routing.New and Start: cancelled or not
    \* ---- Runner (tattler.Runner) ----
    readers,        \* Runner.readers
    r_started,      \* Runner.started
    rd,             \* the state of every Reader: its channel, its flags, its informer
    other,          \* a second chan data.Entry of the host, which it may hand to SetOut
    runLog,         \* history: the Run calls made by the last Start / AddReader call
    startCalls,     \* history: number of Runner.Start calls so far
    mu,             \* Runner.mu: "" or the caller that holds it
    calls,          \* the Runner method each concurrent caller is in, and where in it
    \* ---- process ----
    panicked,       \* "" or the runtime panic that ended the process
    errLog,         \* the log: number of errors logged per stage
    sent,           \* history: number of entries / Batches the environment has fed
    fed,            \* history: the entries a recording producer has sent, in order
    drained,        \* history: the entries a recording consumer has received, in order
    ret             \* history: the last API call, its arguments and what it returned

vars == << input, secretsIn, batchingIn, routerIn, preProcessors, pp_pc, pp_held, pp_calls,
           s_pc, s_in, s_held, current, heapBatches, heapBatch, batchesPool, batchPool,
           b_pc, b_held, window, consumerHeld, iter, routes, started, sinks, loops, closers, drops,
           received, ctx,
           readers, r_started, rd, other, runLog, startCalls, mu, calls,
           panicked, errLog, sent, fed, drained, ret >>

----------------------------------------------------------------------------
(* Bounds of the model. *)

\* entries the environment feeds into a stage in one run
MaxSend == 3
\* entries the producers send on the shared input in one run
MaxEntries == 2
\* Start calls made on the router / the Runner in one run
MaxStarts == 2
\* capacity of a processor's channel (chosen by the operator)
SinkCap == 1
\* capacity of the shared input channel (chosen by the operator)
InputCap == 1

\* routes registered with the router in one run
MaxRoutes == 2
\* readers added to the Runner in one run
MaxReaders == 2
\* Close calls on one reader that wait at the same time
MaxCloses == 1

\* capacity of the channels tattler.New makes
ChanCap == 1

----------------------------------------------------------------------------
(* Channels.  A channel is its buffer and its closed flag. *)

NewChan == [buf |-> <<>>, closed |-> FALSE]

CanSend(ch, cap) == ~ch.closed /\ Len(ch.buf) < cap
CanRecv(ch) == Len(ch.buf) > 0
\* a receive on a closed and drained channel returns at once with ok = false
RecvClosed(ch) == ch.closed /\ Len(ch.buf) = 0
Send(ch, v) == [ch EXCEPT !.buf = Append(@, v)]
Recv(ch) == [ch EXCEPT !.buf = Tail(@)]
Close(ch) == [ch EXCEPT !.closed = TRUE]

----------------------------------------------------------------------------
(* Package data: the entry / source-data / change envelope. *)

ETUnknown == 0
ETInformer == 1
ETPersistentVolume == 2

OTUnknown == 0
OTNode == 1
OTPod == 2
OTNamespace == 3
OTPersistentVolume == 4

CTUnknown == 0
CTAdd == 1
CTUpdate == 2
CTDelete == 3

\* A Kubernetes object behind a pointer: nil, or its UID and (for a pod) the
\* environment of each of its containers.
NilObj == [nil |-> TRUE, uid |-> "", containers |-> <<>>]
K8Object(uid, containers) == [nil |-> FALSE, uid |-> uid, containers |-> containers]

\* Change[T]: T is "Node", "Pod", "Namespace" or "PersistentVolume".
Change(T, old, new, ct, ot) ==
    [T |-> T, Old |-> old, New |-> new, ChangeType |-> ct, ObjectType |-> ot]
NoChange == Change("nil", NilObj, NilObj, CTUnknown, OTUnknown)

\* Change.Validate
Validate(c) ==
    IF c.ChangeType = CTUnknown THEN FALSE
    ELSE IF c.ObjectType = OTUnknown THEN FALSE
    ELSE IF c.ChangeType = CTAdd /\ c.New.nil THEN FALSE
    ELSE IF c.ChangeType = CTUpdate /\ (c.New.nil \/ c.Old.nil) THEN FALSE
    ELSE IF c.ChangeType = CTDelete /\ c.Old.nil THEN FALSE
    ELSE TRUE

\* the zero value Change[T]{}
ZeroChange(T) == Change(T, NilObj, NilObj, CTUnknown, OTUnknown)

\* NewChange[T](newObj, oldObj, ct): [err, val], err = "" for a nil error
NewChange(T, newObj, oldObj, ct) ==
    LET newIsZero == newObj.nil
        oldIsZero == oldObj.nil
        fail(msg) == [err |-> msg, val |-> ZeroChange(T)]
        made(ot) == [err |-> "", val |-> Change(T, oldObj, newObj, ct, ot)]
    IN IF ct = CTUnknown THEN fail("invalid type")
       ELSE IF newIsZero /\ oldIsZero THEN fail("new and old are both empty")
       ELSE IF ct = CTAdd /\ (newIsZero \/ ~oldIsZero) THEN fail("Change for add incorrect")
       ELSE IF ct = CTUpdate /\ (newIsZero \/ oldIsZero)
            THEN fail("Change for update has new or old empty")
       ELSE IF ct = CTDelete /\ (oldIsZero \/ ~newIsZero) THEN fail("Change for delete incorrect")
       ELSE CASE T = "Node" -> made(OTNode)
              [] T = "Pod" -> made(OTPod)
              [] T = "Namespace" -> made(OTNamespace)
              [] OTHER -> fail("unknown object type")

\* Change.UID taking New's UID for every ChangeType
ChangeUID_alwaysnew(c) == c.New.uid

\* Change.UID, for a change that passed Validate
ChangeUID(c) ==
    CASE c.ChangeType = CTAdd -> c.New.uid
      [] c.ChangeType = CTUpdate -> c.New.uid
      [] c.ChangeType = CTDelete -> c.Old.uid
      [] OTHER -> ""

\* Change.UID returns a nil error: the ChangeType is one its switch knows
ChangeUIDOk(c) == c.ChangeType \in {CTAdd, CTUpdate, CTDelete}

\* SourceData: the Informer and PersistentVolume wrappers, or a nil interface.
SourceData(src, change, uid, ot) == [src |-> src, data |-> change, uid |-> uid, Type |-> ot]
NoData == SourceData("nil", NoChange, "", OTUnknown)

\* NewInformer: [ok, val]
NewInformer(c) ==
    IF c.ObjectType \notin {OTNode, OTPod, OTNamespace} THEN [ok |-> FALSE, val |-> NoData]
    ELSE IF ~Validate(c) THEN [ok |-> FALSE, val |-> NoData]
    ELSE IF ~ChangeUIDOk(c) THEN [ok |-> FALSE, val |-> NoData]
    ELSE [ok |-> TRUE, val |-> SourceData("Informer", c, ChangeUID(c), c.ObjectType)]

\* NewPersistentVolume: [ok, val]
NewPersistentVolume(c) ==
    IF c.ObjectType # OTPersistentVolume THEN [ok |-> FALSE, val |-> NoData]
    ELSE IF ~Validate(c) THEN [ok |-> FALSE, val |-> NoData]
    ELSE IF ~ChangeUIDOk(c) THEN [ok |-> FALSE, val |-> NoData]
    ELSE [ok |-> TRUE, val |-> SourceData("PersistentVolume", c, ChangeUID(c), c.ObjectType)]

\* Entry: the envelope.  Type is an exported field, data is not.
Entry(d, t) == [data |-> d, Type |-> t]
ZeroEntry == Entry(NoData, ETUnknown)

\* NewEntry: [ok, val]
NewEntry(d) ==
    CASE d.src = "Informer" -> [ok |-> TRUE, val |-> Entry(d, ETInformer)]
      [] d.src = "PersistentVolume" -> [ok |-> TRUE, val |-> Entry(d, ETPersistentVolume)]
      [] OTHER -> [ok |-> FALSE, val |-> ZeroEntry]

\* Entry.UID
UID(e) == IF e.data.src = "nil" THEN "" ELSE e.data.uid

\* Entry.Informer: [ok, val]
EntryInformer(e) ==
    IF e.Type # ETInformer THEN [ok |-> FALSE, val |-> NoData]
    ELSE IF e.data.src = "nil" THEN [ok |-> FALSE, val |-> NoData]
    ELSE IF e.data.src # "Informer" THEN [ok |-> FALSE, val |-> NoData]
    ELSE [ok |-> TRUE, val |-> e.data]

\* Informer.Object: which of the change's two objects is the latest state
\* ("Old", "New"), or "none" when the wrapped value is not a change it knows.
InformerObject(i) ==
    IF i.data.T \in {"Node", "Pod", "Namespace"}
    THEN (IF i.data.ChangeType = CTDelete THEN "Old" ELSE "New")
    ELSE "none"

----------------------------------------------------------------------------
(* Strings that are matched against the credential pattern are modelled as  *)
(* sequences of characters, so that case folding and substring search are   *)
(* computed and not assumed.                                                *)

UpperCase == << "A","B","C","D","E","F","G","H","I","J","K","L","M",
                "N","O","P","Q","R","S","T","U","V","W","X","Y","Z" >>
LowerCase == << "a","b","c","d","e","f","g","h","i","j","k","l","m",
                "n","o","p","q","r","s","t","u","v","w","x","y","z" >>

\* case folding of one character, as the (?i) flag of the pattern does
Fold(c) ==
    IF \E i \in 1..26 : UpperCase[i] = c
    THEN LowerCase[CHOOSE i \in 1..26 : UpperCase[i] = c]
    ELSE c

\* needle occurs in hay, ignoring case
ContainsFold(hay, needle) ==
    \E i \in 0..(Len(hay) - Len(needle)) :
        \A j \in 1..Len(needle) : Fold(hay[i + j]) = Fold(needle[j])

\* the pattern without "pwd", as the copy of the package outside tattler/ has it
secretRE_nopwd ==
    { <<"t","o","k","e","n">>, <<"p","a","s","s">>, <<"j","w","t">>,
      <<"h","a","s","h">>, <<"s","e","c","r","e","t">>, <<"b","e","a","r","e","r">>,
      <<"c","r","e","d">>, <<"s","e","c","u","r","e">>, <<"s","i","g","n","i","n","g">>,
      <<"c","e","r","t">>, <<"c","o","d","e">>, <<"k","e","y">> }

\* secretRE: the alternatives of (?i)(token|pass|pwd|jwt|hash|secret|bearer|cred|secure|signing|cert|code|key)
secretRE ==
    { <<"t","o","k","e","n">>, <<"p","a","s","s">>, <<"p","w","d">>, <<"j","w","t">>,
      <<"h","a","s","h">>, <<"s","e","c","r","e","t">>, <<"b","e","a","r","e","r">>,
      <<"c","r","e","d">>, <<"s","e","c","u","r","e">>, <<"s","i","g","n","i","n","g">>,
      <<"c","e","r","t">>, <<"c","o","d","e">>, <<"k","e","y">> }

\* regexp.MatchString for a pattern that is an alternation of literals
MatchString(re, name) == \E alt \in re : ContainsFold(name, alt)

redacted == "REDACTED"

\* Secrets.scrubContainer: a container is the sequence of its env vars
scrubContainer(c) ==
    [i \in DOMAIN c |->
        IF MatchString(secretRE, c[i].Name) THEN [c[i] EXCEPT !.Value = redacted] ELSE c[i]]

\* Secrets.scrubPod: the pod is edited in place, behind its pointer
scrubPod(p) ==
    [p EXCEPT !.containers = [i \in DOMAIN p.containers |-> scrubContainer(p.containers[i])]]

\* Secrets.informerScrubber: [err, val], val the entry after the in-place edit
informerScrubber(e) ==
    LET i == EntryInformer(e) IN
    IF ~i.ok THEN [err |-> TRUE, val |-> e]
    ELSE IF i.val.Type = OTPod
         THEN (IF InformerObject(i.val) = "none" \/ i.val.data.T # "Pod"
               THEN [err |-> TRUE, val |-> e]
               ELSE IF InformerObject(i.val) = "Old"
                    THEN [err |-> FALSE, val |-> [e EXCEPT !.data.data.Old = scrubPod(@)]]
                    ELSE [err |-> FALSE, val |-> [e EXCEPT !.data.data.New = scrubPod(@)]])
         ELSE [err |-> FALSE, val |-> e]

\* entryRouter without the return after the logged error
entryRouter_nodrop(e) ==
    [drop |-> FALSE, val |-> IF e.Type = ETInformer THEN informerScrubber(e).val ELSE e]

\* Secrets.entryRouter up to its send: [drop, val]
entryRouter(e) ==
    IF e.Type = ETInformer
    THEN (LET r == informerScrubber(e) IN [drop |-> r.err, val |-> r.val])
    ELSE [drop |-> FALSE, val |-> e]

----------------------------------------------------------------------------
(* Groups of variables. *)

chanVars == << input, secretsIn, batchingIn, routerIn >>
ppVars == << preProcessors, pp_pc, pp_held, pp_calls >>
sVars == << s_pc, s_in, s_held >>
bVars == << current, heapBatches, heapBatch, batchesPool, batchPool, b_pc, b_held, window,
            consumerHeld, iter >>
rVars == << routes, started, sinks, loops, closers, drops, received, ctx >>
runVars == << readers, r_started, rd, other, runLog, startCalls, mu, calls >>

\* the goroutines of the host that call the Runner's methods
Callers == {"t1", "t2"}

\* a caller that is in no method of the Runner
NoCall == [pc |-> "idle", op |-> "", reader |-> "", i |-> 0, err |-> ""]

\* a map with no keys
EmptyMap == [k \in {} |-> 0]

\* no Iter call made yet.  pc: position of the producer goroutine; done: ctx.Done()
\* is closed; ref: the Batches ranged over; outer: its keys not yet visited;
\* batch, inner: the Batch being ranged over and its keys not yet visited;
\* got: history of what the consumer received from ch
NoIter ==
    [pc |-> "none", done |-> FALSE, ch |-> NewChan, ref |-> 0, outer |-> {}, batch |-> 0,
     inner |-> {}, got |-> <<>>]

----------------------------------------------------------------------------
(* Pre-processing stage: preprocess.Runner.run *)

\* The processors a host may configure.  A PreProcessor is a function the
\* host supplies; these three stand for it.
ProcErr(p, e) ==
    CASE p = "rejectZero" -> e.Type = ETUnknown
      [] p = "rejectNode" -> e.data.Type = OTNode
      [] OTHER -> FALSE

\* the loop over the processors without its break: the error of the last
\* processor is the one that is left
FirstErr_nobreak(procs, e) ==
    IF ProcErr(procs[Len(procs)], e) THEN Len(procs) ELSE 0

\* index of the first processor that returns an error on e, or 0
FirstErr(procs, e) ==
    IF \E i \in 1..Len(procs) : ProcErr(procs[i], e)
    THEN CHOOSE i \in 1..Len(procs) :
            ProcErr(procs[i], e) /\ \A j \in 1..(i - 1) : ~ProcErr(procs[j], e)
    ELSE 0

\* run, one iteration up to the send: the entry is read and the processors are called in order
PreprocRecv ==
    /\ panicked = "" /\ pp_pc = "recv"
    /\ CanRecv(input)
    /\ LET e == Head(input.buf)
           k == FirstErr(preProcessors, e)
       IN /\ input' = Recv(input)
          /\ pp_calls' = SubSeq(preProcessors, 1, IF k = 0 THEN Len(preProcessors) ELSE k)
          /\ IF k # 0
             THEN /\ errLog' = [errLog EXCEPT !.preprocess = @ + 1]
                  /\ UNCHANGED << pp_pc, pp_held >>
             ELSE /\ pp_pc' = "send" /\ pp_held' = e
                  /\ UNCHANGED errLog
    /\ UNCHANGED << secretsIn, batchingIn, routerIn, preProcessors, sVars, bVars, rVars, runVars,
                    panicked, sent, fed, drained, ret >>

\* run sending with select and a default case: a full output drops the entry
PreprocSend_dropfull ==
    /\ panicked = "" /\ pp_pc = "send"
    /\ ~secretsIn.closed
    /\ secretsIn' = IF Len(secretsIn.buf) < ChanCap THEN Send(secretsIn, pp_held) ELSE secretsIn
    /\ pp_pc' = "recv" /\ pp_held' = ZeroEntry
    /\ UNCHANGED << input, batchingIn, routerIn, preProcessors, pp_calls, sVars, bVars, rVars,
                    runVars, panicked, errLog, sent, fed, drained, ret >>

\* run: r.out <- entry
PreprocSend ==
    /\ panicked = "" /\ pp_pc = "send"
    /\ CanSend(secretsIn, ChanCap)
    /\ secretsIn' = Send(secretsIn, pp_held)
    /\ pp_pc' = "recv" /\ pp_held' = ZeroEntry
    /\ UNCHANGED << input, batchingIn, routerIn, preProcessors, pp_calls, sVars, bVars, rVars,
                    runVars, panicked, errLog, sent, fed, drained, ret >>

\* run: the input is closed and drained; the deferred close(r.out) runs
PreprocClose ==
    /\ panicked = "" /\ pp_pc = "recv"
    /\ RecvClosed(input)
    /\ secretsIn' = Close(secretsIn)
    /\ pp_pc' = "done"
    /\ UNCHANGED << input, batchingIn, routerIn, preProcessors, pp_held, pp_calls, sVars, bVars,
                    rVars, runVars, panicked, errLog, sent, fed, drained, ret >>

----------------------------------------------------------------------------
(* Redaction stage: safety.Secrets.run *)

\* the channel tattler.New hands to safety.New as its input
SecretsInput == IF Len(preProcessors) = 0 THEN input ELSE secretsIn

\* run, one iteration up to the send of entryRouter
SecretsRecv ==
    /\ panicked = "" /\ s_pc = "recv"
    /\ CanRecv(SecretsInput)
    /\ LET e == Head(SecretsInput.buf)
           r == entryRouter(e)
       IN /\ s_in' = e
          /\ IF r.drop
             THEN /\ errLog' = [errLog EXCEPT !.secrets = @ + 1]
                  /\ UNCHANGED << s_pc, s_held >>
             ELSE /\ s_pc' = "send" /\ s_held' = r.val
                  /\ UNCHANGED errLog
    /\ IF Len(preProcessors) = 0
       THEN input' = Recv(input) /\ UNCHANGED secretsIn
       ELSE secretsIn' = Recv(secretsIn) /\ UNCHANGED input
    /\ UNCHANGED << batchingIn, routerIn, ppVars, bVars, rVars, runVars, panicked, sent, fed, drained, ret >>

\* entryRouter sending with select and a default case: a full output drops the entry
SecretsSend_dropfull ==
    /\ panicked = "" /\ s_pc = "send"
    /\ ~batchingIn.closed
    /\ batchingIn' = IF Len(batchingIn.buf) < ChanCap THEN Send(batchingIn, s_held) ELSE batchingIn
    /\ s_pc' = "recv" /\ s_held' = ZeroEntry /\ s_in' = ZeroEntry
    /\ UNCHANGED << input, secretsIn, routerIn, ppVars, bVars, rVars, runVars, panicked, errLog,
                    sent, fed, drained, ret >>

\* entryRouter: s.out <- e
SecretsSend ==
    /\ panicked = "" /\ s_pc = "send"
    /\ CanSend(batchingIn, ChanCap)
    /\ batchingIn' = Send(batchingIn, s_held)
    /\ s_pc' = "recv" /\ s_held' = ZeroEntry /\ s_in' = ZeroEntry
    /\ UNCHANGED << input, secretsIn, routerIn, ppVars, bVars, rVars, runVars, panicked, errLog,
                    sent, fed, drained, ret >>

\* run: the input is closed and drained; the deferred close(s.out) runs
SecretsClose ==
    /\ panicked = "" /\ s_pc = "recv"
    /\ RecvClosed(SecretsInput)
    /\ batchingIn' = Close(batchingIn)
    /\ s_pc' = "done"
    /\ UNCHANGED << input, secretsIn, routerIn, ppVars, s_in, s_held, bVars, rVars, runVars,
                    panicked, errLog, sent, fed, drained, ret >>

----------------------------------------------------------------------------
(* Batcher: batching.Batcher.  Batches and Batch are Go maps, that is        *)
(* references: the heaps hold what each map contains, and current, the       *)
(* channels, the pools and the consumers hold references into them.          *)

MapPut(m, k, v) == [x \in (DOMAIN m) \cup {k} |-> IF x = k THEN v ELSE m[x]]
Range(m) == { m[x] : x \in DOMAIN m }
\* the values of a map as a bag: one copy per key that holds the value
RangeBag(m) == [r \in Range(m) |-> Cardinality({ x \in DOMAIN m : m[x] = r })]

\* what a Batches reference denotes: EntryType -> (UID -> Entry)
Deref(ref) == [t \in DOMAIN heapBatches[ref] |-> heapBatch[heapBatches[ref][t]]]

\* handleData keeping the first entry of a UID instead of the last
handleDataStore_keepfirst(batch, uid, entry) ==
    IF uid \in DOMAIN batch THEN batch ELSE MapPut(batch, uid, entry)

\* handleData: batch[entry.UID()] = entry
handleDataStore(batch, uid, entry) == MapPut(batch, uid, entry)

\* handleData keying the Batches by the ObjectType of the entry's data
BatchKey_objecttype(entry) == entry.data.Type

\* handleData: the key of the entry's Batch in b.current
BatchKey(entry) == entry.Type

\* handleData without its test of entry.UID()
BatcherRecv_nouidcheck ==
    /\ panicked = "" /\ b_pc = "select"
    /\ CanRecv(batchingIn)
    /\ batchingIn' = Recv(batchingIn)
    /\ LET entry == Head(batchingIn.buf)
           cur == heapBatches[current]
       IN IF BatchKey(entry) \in DOMAIN cur
          THEN /\ UNCHANGED << batchPool, heapBatches >>
               /\ IF FALSE
                  THEN /\ errLog' = [errLog EXCEPT !.batcher = @ + 1]
                       /\ UNCHANGED << heapBatch, window >>
                  ELSE /\ heapBatch' = [heapBatch EXCEPT ![cur[BatchKey(entry)]] =
                                            handleDataStore(@, UID(entry), entry)]
                       /\ window' = Append(window, entry)
                       /\ UNCHANGED errLog
          ELSE \E got \in {0} \cup BagToSet(batchPool) :
                 LET ref == IF got = 0 THEN Len(heapBatch) + 1 ELSE got
                     heap1 == IF got = 0 THEN Append(heapBatch, EmptyMap) ELSE heapBatch
                 IN /\ batchPool' = IF got = 0 THEN batchPool ELSE batchPool (-) SetToBag({got})
                    /\ IF FALSE
                       THEN /\ errLog' = [errLog EXCEPT !.batcher = @ + 1]
                            /\ UNCHANGED << heapBatch, heapBatches, window >>
                       ELSE /\ heapBatch' = [heap1 EXCEPT ![ref] =
                                                 handleDataStore(@, UID(entry), entry)]
                            /\ heapBatches' = [heapBatches EXCEPT ![current] =
                                                 MapPut(@, BatchKey(entry), ref)]
                            /\ window' = Append(window, entry)
                            /\ UNCHANGED errLog
    /\ UNCHANGED << input, secretsIn, routerIn, ppVars, sVars, current, batchesPool, b_pc, b_held,
                    consumerHeld, iter, rVars, runVars, panicked, sent, fed, drained, ret >>

\* handleData storing the Batch in b.current before its test of entry.UID()
BatcherRecv_storefirst ==
    /\ panicked = "" /\ b_pc = "select"
    /\ CanRecv(batchingIn)
    /\ batchingIn' = Recv(batchingIn)
    /\ LET entry == Head(batchingIn.buf)
           cur == heapBatches[current]
       IN IF BatchKey(entry) \in DOMAIN cur
          THEN /\ UNCHANGED << batchPool, heapBatches >>
               /\ IF UID(entry) = ""
                  THEN /\ errLog' = [errLog EXCEPT !.batcher = @ + 1]
                       /\ UNCHANGED << heapBatch, window >>
                  ELSE /\ heapBatch' = [heapBatch EXCEPT ![cur[BatchKey(entry)]] =
                                            handleDataStore(@, UID(entry), entry)]
                       /\ window' = Append(window, entry)
                       /\ UNCHANGED errLog
          ELSE \E got \in {0} \cup BagToSet(batchPool) :
                 LET ref == IF got = 0 THEN Len(heapBatch) + 1 ELSE got
                     heap1 == IF got = 0 THEN Append(heapBatch, EmptyMap) ELSE heapBatch
                 IN /\ batchPool' = IF got = 0 THEN batchPool ELSE batchPool (-) SetToBag({got})
                    /\ IF UID(entry) = ""
                       THEN /\ errLog' = [errLog EXCEPT !.batcher = @ + 1]
                            /\ heapBatch' = heap1
                            /\ heapBatches' = [heapBatches EXCEPT ![current] =
                                                 MapPut(@, BatchKey(entry), ref)]
                            /\ UNCHANGED window
                       ELSE /\ heapBatch' = [heap1 EXCEPT ![ref] =
                                                 handleDataStore(@, UID(entry), entry)]
                            /\ heapBatches' = [heapBatches EXCEPT ![current] =
                                                 MapPut(@, BatchKey(entry), ref)]
                            /\ window' = Append(window, entry)
                            /\ UNCHANGED errLog
    /\ UNCHANGED << input, secretsIn, routerIn, ppVars, sVars, current, batchesPool, b_pc, b_held,
                    consumerHeld, iter, rVars, runVars, panicked, sent, fed, drained, ret >>

\* handleInput, case data, ok := <-b.in with ok: handleData(data).
\* sync.Pool.Get hands out any pooled map, or a new one from New.
BatcherRecv ==
    /\ panicked = "" /\ b_pc = "select"
    /\ CanRecv(batchingIn)
    /\ batchingIn' = Recv(batchingIn)
    /\ LET entry == Head(batchingIn.buf)
           cur == heapBatches[current]
       IN IF BatchKey(entry) \in DOMAIN cur
          THEN /\ UNCHANGED << batchPool, heapBatches >>
               /\ IF UID(entry) = ""
                  THEN /\ errLog' = [errLog EXCEPT !.batcher = @ + 1]
                       /\ UNCHANGED << heapBatch, window >>
                  ELSE /\ heapBatch' = [heapBatch EXCEPT ![cur[BatchKey(entry)]] =
                                            handleDataStore(@, UID(entry), entry)]
                       /\ window' = Append(window, entry)
                       /\ UNCHANGED errLog
          ELSE \E got \in {0} \cup BagToSet(batchPool) :
                 LET ref == IF got = 0 THEN Len(heapBatch) + 1 ELSE got
                     heap1 == IF got = 0 THEN Append(heapBatch, EmptyMap) ELSE heapBatch
                 IN /\ batchPool' = IF got = 0 THEN batchPool ELSE batchPool (-) SetToBag({got})
                    /\ IF UID(entry) = ""
                       THEN /\ errLog' = [errLog EXCEPT !.batcher = @ + 1]
                            /\ UNCHANGED << heapBatch, heapBatches, window >>
                       ELSE /\ heapBatch' = [heap1 EXCEPT ![ref] =
                                                 handleDataStore(@, UID(entry), entry)]
                            /\ heapBatches' = [heapBatches EXCEPT ![current] =
                                                 MapPut(@, BatchKey(entry), ref)]
                            /\ window' = Append(window, entry)
                            /\ UNCHANGED errLog
    /\ UNCHANGED << input, secretsIn, routerIn, ppVars, sVars, current, batchesPool, b_pc, b_held,
                    consumerHeld, iter, rVars, runVars, panicked, sent, fed, drained, ret >>

\* handleInput, case <-tick calling the emitter without the len(b.current) == 0 test
BatcherTickEmpty_emits ==
    /\ panicked = "" /\ b_pc = "select"
    /\ DOMAIN heapBatches[current] = {}
    /\ \E got \in {0} \cup BagToSet(batchesPool) :
         /\ b_held' = current
         /\ current' = IF got = 0 THEN Len(heapBatches) + 1 ELSE got
         /\ heapBatches' = IF got = 0 THEN Append(heapBatches, EmptyMap) ELSE heapBatches
         /\ batchesPool' = IF got = 0 THEN batchesPool ELSE batchesPool (-) SetToBag({got})
    /\ b_pc' = "emit"
    /\ UNCHANGED << chanVars, ppVars, sVars, heapBatch, batchPool, window, consumerHeld, iter, rVars,
                    runVars, panicked, errLog, sent, fed, drained, ret >>

\* handleInput, case <-tick with len(b.current) == 0
BatcherTickEmpty ==
    /\ panicked = "" /\ b_pc = "select"
    /\ DOMAIN heapBatches[current] = {}
    /\ UNCHANGED vars

\* emit keeping b.current instead of taking a Batches from the pool
BatcherTick_reuse ==
    /\ panicked = "" /\ b_pc = "select"
    /\ DOMAIN heapBatches[current] # {}
    /\ b_held' = current
    /\ b_pc' = "emit"
    /\ UNCHANGED << chanVars, ppVars, sVars, current, heapBatches, heapBatch, batchesPool,
                    batchPool, window, consumerHeld, iter, rVars, runVars, panicked, errLog, sent, fed, drained, ret >>

\* handleInput, case <-tick with a non-empty current: emit, up to its send
BatcherTick ==
    /\ panicked = "" /\ b_pc = "select"
    /\ DOMAIN heapBatches[current] # {}
    /\ \E got \in {0} \cup BagToSet(batchesPool) :
         /\ b_held' = current
         /\ current' = IF got = 0 THEN Len(heapBatches) + 1 ELSE got
         /\ heapBatches' = IF got = 0 THEN Append(heapBatches, EmptyMap) ELSE heapBatches
         /\ batchesPool' = IF got = 0 THEN batchesPool ELSE batchesPool (-) SetToBag({got})
    /\ b_pc' = "emit"
    /\ UNCHANGED << chanVars, ppVars, sVars, heapBatch, batchPool, window, consumerHeld, iter, rVars,
                    runVars, panicked, errLog, sent, fed, drained, ret >>

\* emit: b.out <- batches
BatcherEmitSend ==
    /\ panicked = "" /\ b_pc = "emit"
    /\ CanSend(routerIn, ChanCap)
    /\ routerIn' = Send(routerIn, b_held)
    /\ b_pc' = "select" /\ b_held' = 0 /\ window' = <<>>
    /\ UNCHANGED << input, secretsIn, batchingIn, ppVars, sVars, current, heapBatches, heapBatch,
                    batchesPool, batchPool, consumerHeld, iter, rVars, runVars, panicked, errLog, sent, fed, drained,
                    ret >>

\* run returning without the deferred close(b.out)
BatcherClose_noclose ==
    /\ panicked = "" /\ b_pc = "select"
    /\ RecvClosed(batchingIn)
    /\ b_pc' = "done"
    /\ UNCHANGED << chanVars, ppVars, sVars, current, heapBatches, heapBatch,
                    batchesPool, batchPool, b_held, window, consumerHeld, iter, rVars, runVars, panicked,
                    errLog, sent, fed, drained, ret >>

\* run sending b.current a last time before the deferred close(b.out)
BatcherClose_flush ==
    /\ panicked = "" /\ b_pc = "select"
    /\ RecvClosed(batchingIn)
    /\ CanSend(routerIn, ChanCap)
    /\ routerIn' = Close(IF DOMAIN heapBatches[current] # {}
                         THEN Send(routerIn, current) ELSE routerIn)
    /\ b_pc' = "done"
    /\ UNCHANGED << input, secretsIn, batchingIn, ppVars, sVars, current, heapBatches, heapBatch,
                    batchesPool, batchPool, b_held, window, consumerHeld, iter, rVars, runVars, panicked,
                    errLog, sent, fed, drained, ret >>

\* handleInput, case data, ok := <-b.in with !ok: run returns, the deferred close(b.out) runs
BatcherClose ==
    /\ panicked = "" /\ b_pc = "select"
    /\ RecvClosed(batchingIn)
    /\ routerIn' = Close(routerIn)
    /\ b_pc' = "done"
    /\ UNCHANGED << input, secretsIn, batchingIn, ppVars, sVars, current, heapBatches, heapBatch,
                    batchesPool, batchPool, b_held, window, consumerHeld, iter, rVars, runVars, panicked,
                    errLog, sent, fed, drained, ret >>

\* Recycle putting the maps into the pools without the two maps.DeleteFunc calls
Recycle_noclear(ref) ==
    /\ panicked = ""
    /\ ref \in consumerHeld
    /\ batchPool' = batchPool (+) RangeBag(heapBatches[ref])
    /\ batchesPool' = batchesPool (+) SetToBag({ref})
    /\ consumerHeld' = consumerHeld \ {ref}
    /\ UNCHANGED << chanVars, ppVars, sVars, current, heapBatches, heapBatch, b_pc, b_held,
                    window, iter, rVars, runVars, panicked, errLog, sent, fed, drained, ret >>

\* Batcher.Recycle(batches), called by a consumer that is done with a Batches it received
Recycle(ref) ==
    /\ panicked = ""
    /\ ref \in consumerHeld
    /\ LET inner == Range(heapBatches[ref])
       IN /\ heapBatch' = [r \in DOMAIN heapBatch |->
                              IF r \in inner THEN EmptyMap ELSE heapBatch[r]]
          /\ batchPool' = batchPool (+) RangeBag(heapBatches[ref])
    /\ heapBatches' = [heapBatches EXCEPT ![ref] = EmptyMap]
    /\ batchesPool' = batchesPool (+) SetToBag({ref})
    /\ consumerHeld' = consumerHeld \ {ref}
    /\ UNCHANGED << chanVars, ppVars, sVars, current, b_pc, b_held, window, iter, rVars, runVars,
                    panicked, errLog, sent, fed, drained, ret >>

\* a consumer ranging over Batcher.Out receives the next Batches
ConsumerRecv ==
    /\ panicked = ""
    /\ CanRecv(routerIn)
    /\ routerIn' = Recv(routerIn)
    /\ consumerHeld' = consumerHeld \cup {Head(routerIn.buf)}
    /\ UNCHANGED << input, secretsIn, batchingIn, ppVars, sVars, current, heapBatches, heapBatch,
                    batchesPool, batchPool, b_pc, b_held, window, iter, rVars, runVars, panicked, errLog,
                    sent, fed, drained, ret >>

----------------------------------------------------------------------------
(* Router: routing.Batches *)

\* the names and channels a caller may pass to Register / AddProcessor
Names == {"", "a", "b"}
Chans == {"c1", "c2"}
ChanArgs == Chans \cup {"nil"}

route(name, ch) == [name |-> name, out |-> ch]

\* Register without the nil-channel check
RegisterResult_nonilcheck(isStarted, name, ch) ==
    IF isStarted THEN "cannot Register a route after Start() is called"
    ELSE IF name = "" THEN "cannot Register a route with an empty name"
    ELSE ""

\* Register: the error it returns, "" for nil
RegisterResult(isStarted, name, ch) ==
    IF isStarted THEN "cannot Register a route after Start() is called"
    ELSE IF name = "" THEN "cannot Register a route with an empty name"
    ELSE IF ch = "nil" THEN "cannot Register a route with a nil channel"
    ELSE ""

\* Batches.Register(ctx, name, ch)
Register(name, ch) ==
    /\ panicked = ""
    /\ LET err == RegisterResult(started, name, ch)
       IN /\ routes' = IF err = "" THEN Append(routes, route(name, ch)) ELSE routes
          /\ ret' = [op |-> "Register", name |-> name, ch |-> ch, err |-> err,
                     routesBefore |-> routes, startedBefore |-> started]
    /\ UNCHANGED << chanVars, ppVars, sVars, bVars, started, sinks, loops, closers, drops, received, ctx,
                    runVars, panicked, errLog, sent, fed, drained >>

\* Start without the check of the routes
StartResult_nocheck == ""

\* Batches.Start: the error it returns, "" for nil
StartResult == IF Len(routes) = 0 THEN "cannot start without registered routes" ELSE ""

\* Batches.Start after its check: b.started = true, g.Go(handleInput), go func() { g.Wait; close ... }
StartEffect ==
    /\ started' = TRUE
    /\ loops' = Append(loops, [pc |-> "recv", b |-> 0, i |-> 0])
    /\ closers' = Append(closers, [pc |-> "wait", i |-> 1])

\* Batches.Start(ctx)
Start ==
    /\ panicked = ""
    /\ IF StartResult = ""
       THEN StartEffect
       ELSE UNCHANGED << started, loops, closers >>
    /\ ret' = [op |-> "routing.Start", err |-> StartResult, loopsBefore |-> Len(loops),
                startedBefore |-> started, routesBefore |-> routes]
    /\ UNCHANGED << chanVars, ppVars, sVars, bVars, routes, sinks, drops, received, ctx, runVars, panicked,
                    errLog, sent, fed, drained >>

\* handleInput reading the head of b.input without taking it off the channel
LoopRecv_peek(k) ==
    /\ panicked = "" /\ loops[k].pc = "recv"
    /\ CanRecv(routerIn)
    /\ loops' = [loops EXCEPT ![k] = [pc |-> "push", b |-> Head(routerIn.buf), i |-> 1]]
    /\ UNCHANGED << chanVars, ppVars, sVars, bVars, routes, started, sinks, closers, drops,
                    received, ctx, runVars, panicked, errLog, sent, fed, drained, ret >>

\* handleInput: for batches := range b.input, one receive
LoopRecv(k) ==
    /\ panicked = "" /\ loops[k].pc = "recv"
    /\ CanRecv(routerIn)
    /\ routerIn' = Recv(routerIn)
    /\ loops' = [loops EXCEPT ![k] = [pc |-> "push", b |-> Head(routerIn.buf), i |-> 1]]
    /\ UNCHANGED << input, secretsIn, batchingIn, ppVars, sVars, bVars, routes, started, sinks,
                    closers, drops, received, ctx, runVars, panicked, errLog, sent, fed, drained, ret >>

\* push that counts the value being sent against the capacity
push_offbyone(ch, batches) ==
    IF ch.closed THEN "panic"
    ELSE IF Len(ch.buf) + 1 < SinkCap THEN "sent" ELSE "drop"

\* push: select { case r.out <- batches: default: return error }.  A send on a
\* closed channel panics, also inside a select.
push(ch, batches) ==
    IF ch.closed THEN "panic"
    ELSE IF Len(ch.buf) < SinkCap THEN "sent" ELSE "drop"

\* handleInput whose push is a plain send, r.out <- batches, that waits for room
LoopPush_blocking(k) ==
    /\ panicked = "" /\ loops[k].pc = "push"
    /\ LET r == routes[loops[k].i]
       IN /\ sinks[r.out].closed \/ Len(sinks[r.out].buf) < SinkCap
          /\ sinks' = IF sinks[r.out].closed THEN sinks
                      ELSE [sinks EXCEPT ![r.out] = Send(@, loops[k].b)]
          /\ panicked' = IF sinks[r.out].closed THEN "send on closed channel" ELSE panicked
    /\ loops' = [loops EXCEPT ![k] =
                    IF loops[k].i = Len(routes)
                    THEN [pc |-> "recv", b |-> 0, i |-> 0]
                    ELSE [@ EXCEPT !.i = @ + 1]]
    /\ UNCHANGED << chanVars, ppVars, sVars, bVars, routes, started, closers, drops, received, ctx, runVars,
                    errLog, sent, fed, drained, ret >>

\* handleInput: one push of the inner loop, for _, r := range b.routes
LoopPush(k) ==
    /\ panicked = "" /\ loops[k].pc = "push"
    /\ LET r == routes[loops[k].i]
           res == push(sinks[r.out], loops[k].b)
       IN /\ sinks' = IF res = "sent" THEN [sinks EXCEPT ![r.out] = Send(@, loops[k].b)]
                      ELSE sinks
          /\ drops' = IF res = "drop" THEN [drops EXCEPT ![r.name] = @ + 1] ELSE drops
          /\ panicked' = IF res = "panic" THEN "send on closed channel" ELSE panicked
    /\ loops' = [loops EXCEPT ![k] =
                    IF loops[k].i = Len(routes)
                    THEN [pc |-> "recv", b |-> 0, i |-> 0]
                    ELSE [@ EXCEPT !.i = @ + 1]]
    /\ UNCHANGED << chanVars, ppVars, sVars, bVars, routes, started, closers, received, ctx, runVars, errLog,
                    sent, fed, drained, ret >>

\* handleInput that also returns when its context is cancelled
LoopExit_onctx(k) ==
    /\ panicked = "" /\ loops[k].pc = "recv"
    /\ RecvClosed(routerIn) \/ ctx.done
    /\ loops' = [loops EXCEPT ![k] = [pc |-> "exited", b |-> 0, i |-> 0]]
    /\ UNCHANGED << chanVars, ppVars, sVars, bVars, routes, started, sinks, closers, drops,
                    received, ctx, runVars, panicked, errLog, sent, fed, drained, ret >>

\* handleInput: the input is closed and drained, the range loop ends
LoopExit(k) ==
    /\ panicked = "" /\ loops[k].pc = "recv"
    /\ RecvClosed(routerIn)
    /\ loops' = [loops EXCEPT ![k] = [pc |-> "exited", b |-> 0, i |-> 0]]
    /\ UNCHANGED << chanVars, ppVars, sVars, bVars, routes, started, sinks, closers, drops, received, ctx,
                    runVars, panicked, errLog, sent, fed, drained, ret >>

\* the closer: after g.Wait, one close(r.out) of for _, r := range b.routes.
\* Closing a closed channel panics.
CloserClose(k) ==
    /\ panicked = "" /\ closers[k].pc # "done"
    /\ loops[k].pc = "exited"
    /\ LET out == routes[closers[k].i].out
       IN IF sinks[out].closed
          THEN /\ panicked' = "close of closed channel"
               /\ UNCHANGED << sinks, closers >>
          ELSE /\ sinks' = [sinks EXCEPT ![out] = Close(@)]
               /\ closers' = [closers EXCEPT ![k] =
                                IF closers[k].i = Len(routes)
                                THEN [pc |-> "done", i |-> 0]
                                ELSE [pc |-> "closing", i |-> closers[k].i + 1]]
               /\ UNCHANGED panicked
    /\ UNCHANGED << chanVars, ppVars, sVars, bVars, routes, started, loops, drops, received, ctx, runVars,
                    errLog, sent, fed, drained, ret >>

\* a processor receives the next Batches from its channel
SinkRecv(c) ==
    /\ panicked = ""
    /\ CanRecv(sinks[c])
    /\ sinks' = [sinks EXCEPT ![c] = Recv(@)]
    /\ UNCHANGED << chanVars, ppVars, sVars, bVars, routes, started, loops, closers, drops, received, ctx,
                    runVars, panicked, errLog, sent, fed, drained, ret >>

----------------------------------------------------------------------------
(* Readers: the Reader contract, as persistentvolumes.Reader implements it. *)

Readers == {"r1", "r2"}

\* persistentvolumes.New: no channel, not started, r.stop open, the informer
\* not run.  producers: informer goroutines delivering events; stopping: those
\* whose stop channel is closed and whose handlers may still be running;
\* closing: Close calls waiting for the informer to stop.
NewReader ==
    [ch |-> "nil", started |-> FALSE, stopClosed |-> FALSE, ran |-> FALSE,
     producers |-> 0, stopping |-> 0, closing |-> 0]

\* Run without the check of r.started
RunResult_nostartedcheck(state, syncFails) ==
    IF state.ch = "nil" THEN "cannot call Run if SetOut has not been called"
    ELSE IF syncFails \/ state.stopClosed THEN "failed to sync cache"
    ELSE ""

\* Reader.Run: the error it returns, "" for nil.  WaitForCacheSync returns
\* false when r.stop is closed; syncFails: it returns false for another reason.
RunResult(state, syncFails) ==
    IF state.started THEN "cannot call Run once the Reader has already started"
    ELSE IF state.ch = "nil" THEN "cannot call Run if SetOut has not been called"
    ELSE IF syncFails \/ state.stopClosed THEN "failed to sync cache"
    ELSE ""

\* Reader.Run: the reader it leaves behind.  After a failed sync r.started is
\* false again and r.stop is a new channel.
RunEffect(state, syncFails) ==
    LET e == RunResult(state, syncFails)
    IN IF e = ""
       THEN [state EXCEPT !.started = TRUE, !.ran = TRUE, !.producers = @ + 1]
       ELSE IF e = "failed to sync cache"
       THEN [state EXCEPT !.started = FALSE, !.ran = TRUE, !.stopClosed = FALSE]
       ELSE state

\* SetOut without the check of r.started
SetOutResult_nocheck(state) == ""

\* Reader.SetOut: the error it returns, "" for nil
SetOutResult(state) ==
    IF state.started THEN "cannot call SetOut once the Reader has had Start() called" ELSE ""

----------------------------------------------------------------------------
(* Runner: tattler.Runner.  Every method holds r.mu from entry to return, so *)
(* each is one atomic action.                                                *)

RECURSIVE RunReaders_keepgoing(_, _, _, _)
\* the reader loop of Start that goes on after a failed Run
RunReaders_keepgoing(rs, st, fails, log) ==
    IF rs = <<>> THEN [rd |-> st, log |-> log, err |-> ""]
    ELSE LET r == Head(rs)
             e == RunResult(st[r], r \in fails)
             rest == RunReaders_keepgoing(Tail(rs),
                        [st EXCEPT ![r] = RunEffect(st[r], r \in fails)],
                        fails, Append(log, [reader |-> r, err |-> e]))
         IN [rest EXCEPT !.err = IF e # "" THEN e ELSE @]

RECURSIVE RunReaders(_, _, _, _)
\* Start: for _, reader := range r.readers { if err := reader.Run(ctx); err != nil { return } }
\* fails: the readers whose cache sync fails when Run is called now.
RunReaders(rs, st, fails, log) ==
    IF rs = <<>> THEN [rd |-> st, log |-> log, err |-> ""]
    ELSE LET r == Head(rs)
             e == RunResult(st[r], r \in fails)
         IN IF e # ""
            THEN [rd |-> [st EXCEPT ![r] = RunEffect(st[r], r \in fails)],
                  log |-> Append(log, [reader |-> r, err |-> e]), err |-> e]
            ELSE RunReaders(Tail(rs), [st EXCEPT ![r] = RunEffect(st[r], r \in fails)], fails,
                            Append(log, [reader |-> r, err |-> ""]))

\* Runner.Start(ctx).  r.started is not assigned.
RunnerStart(fails) ==
    /\ panicked = ""
    /\ LET res == RunReaders(readers, rd, fails, <<>>)
       IN /\ rd' = res.rd
          /\ runLog' = res.log
          /\ IF res.err = "" /\ StartResult = ""
             THEN StartEffect
             ELSE UNCHANGED << started, loops, closers >>
          /\ ret' = [op |-> "Start",
                     err |-> IF res.err # "" THEN res.err ELSE StartResult,
                     routerStart |-> (res.err = ""),
                     loopsBefore |-> Len(loops),
                     rdBefore |-> rd, startedBefore |-> started]
    /\ startCalls' = startCalls + 1
    /\ UNCHANGED << mu, calls >>
    /\ UNCHANGED << chanVars, ppVars, sVars, bVars, routes, sinks, drops, received, ctx, readers, r_started,
                    other, panicked, errLog, sent, fed, drained >>

\* Runner.AddReader(ctx, reader)
AddReader(reader, syncFails) ==
    /\ panicked = ""
    /\ LET e1 == SetOutResult(rd[reader])
           st1 == IF e1 = "" THEN [rd[reader] EXCEPT !.ch = "input"] ELSE rd[reader]
           e2 == IF e1 = "" /\ r_started THEN RunResult(st1, syncFails) ELSE ""
           st2 == IF e1 = "" /\ r_started THEN RunEffect(st1, syncFails) ELSE st1
       IN /\ rd' = [rd EXCEPT ![reader] = st2]
          /\ runLog' = IF e1 = "" /\ r_started THEN << [reader |-> reader, err |-> e2] >>
                       ELSE <<>>
          /\ readers' = IF e1 = "" /\ e2 = "" THEN Append(readers, reader) ELSE readers
          /\ ret' = [op |-> "AddReader", reader |-> reader,
                     err |-> IF e1 # "" THEN e1 ELSE e2,
                     startedBefore |-> started, rdBefore |-> rd]
    /\ UNCHANGED << chanVars, ppVars, sVars, bVars, rVars, r_started, other, startCalls, mu, calls,
                    panicked, errLog, sent, fed, drained >>

\* Runner.AddProcessor(ctx, name, in)
AddProcessor(name, ch) ==
    /\ panicked = ""
    /\ LET err == IF r_started THEN "cannot add a processor after Runner has started"
                  ELSE RegisterResult(started, name, ch)
       IN /\ routes' = IF err = "" THEN Append(routes, route(name, ch)) ELSE routes
          /\ ret' = [op |-> "AddProcessor", name |-> name, ch |-> ch, err |-> err,
                     routesBefore |-> routes, startedBefore |-> started]
    /\ UNCHANGED << chanVars, ppVars, sVars, bVars, started, sinks, loops, closers, drops, received, ctx,
                    runVars, panicked, errLog, sent, fed, drained >>

----------------------------------------------------------------------------
(* The entries the environment feeds.  Well-formed entries are built with    *)
(* the constructors of package data; the others are the values a caller can  *)
(* write as literals (Entry.Type, Change's fields and the zero values are    *)
(* exported).                                                                *)

EnvVar(n, v) == [Name |-> n, Value |-> v]

DB_PASSWORD == <<"D","B","_","P","A","S","S","W","O","R","D">>
GREETING == <<"G","R","E","E","T","I","N","G">>
Api_Key == <<"A","p","i","_","K","e","y">>
DB_PWD == <<"D","B","_","P","W","D">>
MY_ENV == <<"M","Y","_","E","N","V">>
MONKEY == <<"M","O","N","K","E","Y">>
PATH == <<"P","A","T","H">>

PodS2 == K8Object("p2", << << EnvVar(DB_PASSWORD, "hunter2"), EnvVar(GREETING, "hi") >> >>)
PodTwo == K8Object("p1", << << EnvVar(MY_ENV, "my-value") >>,
                            << EnvVar(Api_Key, "secretkey"), EnvVar(DB_PWD, "hunter2") >> >>)
PodSub == K8Object("p1", << << EnvVar(MONKEY, "banana"), EnvVar(PATH, "REDACTED") >> >>)
PodBare == K8Object("p3", <<>>)

InformerEntry(T, old, new, ct, ot) == NewEntry(NewInformer(Change(T, old, new, ct, ot)).val).val
PVEntry(old, new, ct) ==
    NewEntry(NewPersistentVolume(
        Change("PersistentVolume", old, new, ct, OTPersistentVolume)).val).val

\* an Informer whose ObjectType tag says Pod while it wraps a Change[*Node]
TagDisagrees == InformerEntry("Node", NilObj, K8Object("n1", <<>>), CTAdd, OTPod)
\* Entry{Type: ETInformer}: the type without data
TypeOnly == Entry(NoData, ETInformer)

RedactorEntries ==
    { InformerEntry("Pod", NilObj, PodS2, CTAdd, OTPod),
      InformerEntry("Pod", PodTwo, NilObj, CTDelete, OTPod),
      InformerEntry("Pod", PodS2, PodSub, CTUpdate, OTPod),
      InformerEntry("Pod", NilObj, PodBare, CTAdd, OTPod),
      InformerEntry("Node", NilObj, K8Object("n1", <<>>), CTAdd, OTNode),
      PVEntry(NilObj, K8Object("v1", <<>>), CTAdd),
      ZeroEntry, TypeOnly, TagDisagrees }

BatcherEntries ==
    { InformerEntry("Pod", NilObj, K8Object("u1", <<>>), CTAdd, OTPod),
      InformerEntry("Pod", K8Object("u1", <<>>), NilObj, CTDelete, OTPod),
      InformerEntry("Node", NilObj, K8Object("u2", <<>>), CTAdd, OTNode),
      PVEntry(NilObj, K8Object("u1", <<>>), CTAdd),
      InformerEntry("Pod", NilObj, K8Object("", <<>>), CTAdd, OTPod),
      ZeroEntry }

\* entries of a stream whose order is observed: a Pod with a credential, a
\* Node, and two entries the redactor cannot decode
OrderedEntries ==
    { InformerEntry("Pod", NilObj, PodS2, CTAdd, OTPod),
      InformerEntry("Node", NilObj, K8Object("n1", <<>>), CTAdd, OTNode),
      TypeOnly, TagDisagrees }

\* entries for a chain of pre-processors: two it accepts, one its rejectNode
\* and one its rejectZero refuses
ChainEntries ==
    { InformerEntry("Pod", NilObj, PodBare, CTAdd, OTPod),
      PVEntry(NilObj, K8Object("v1", <<>>), CTAdd),
      InformerEntry("Node", NilObj, K8Object("n1", <<>>), CTAdd, OTNode),
      ZeroEntry }

\* the chains a host configures with WithPreProcessor
ChainOptions ==
    { << "rejectNode", "rejectZero" >>, << "rejectZero", "accept", "rejectNode" >> }

\* entries of a pipeline that stays open: a Pod added and deleted, which
\* share a UID, and a Node
FlowEntries ==
    { InformerEntry("Pod", NilObj, PodS2, CTAdd, OTPod),
      InformerEntry("Pod", PodS2, NilObj, CTDelete, OTPod),
      InformerEntry("Node", NilObj, K8Object("n1", <<>>), CTAdd, OTNode) }

PipelineEntries ==
    { InformerEntry("Pod", NilObj, PodS2, CTAdd, OTPod),
      ZeroEntry }

----------------------------------------------------------------------------
(* The environment: the host program around the stage or pipeline.          *)

\* a producer sends an entry on the shared input
FeedInput(e) ==
    /\ panicked = "" /\ sent < MaxEntries
    /\ CanSend(input, InputCap)
    /\ input' = Send(input, e)
    /\ sent' = sent + 1
    /\ UNCHANGED << fed, drained >>
    /\ UNCHANGED << secretsIn, batchingIn, routerIn, ppVars, sVars, bVars, rVars, runVars,
                    panicked, errLog, ret >>

\* the owner of the shared input closes it, after its producers have stopped
CloseInput ==
    /\ panicked = "" /\ ~input.closed
    /\ input' = Close(input)
    /\ UNCHANGED << secretsIn, batchingIn, routerIn, ppVars, sVars, bVars, rVars, runVars,
                    panicked, errLog, sent, fed, drained, ret >>

\* a consumer of the redactor's output receives an entry
DrainBatchingIn ==
    /\ panicked = ""
    /\ CanRecv(batchingIn)
    /\ batchingIn' = Recv(batchingIn)
    /\ UNCHANGED << input, secretsIn, routerIn, ppVars, sVars, bVars, rVars, runVars, panicked,
                    errLog, sent, fed, drained, ret >>

\* a producer that keeps a record of what it sent sends an entry on the shared input
ProducerSend(e) ==
    /\ panicked = "" /\ Len(fed) < MaxSend
    /\ CanSend(input, InputCap)
    /\ input' = Send(input, e)
    /\ fed' = Append(fed, e)
    /\ sent' = sent + 1
    /\ UNCHANGED << secretsIn, batchingIn, routerIn, ppVars, sVars, bVars, rVars, runVars,
                    panicked, errLog, drained, ret >>

\* a consumer of the redactor's output that keeps a record of what it received
ConsumeBatchingIn ==
    /\ panicked = ""
    /\ CanRecv(batchingIn)
    /\ batchingIn' = Recv(batchingIn)
    /\ drained' = Append(drained, Head(batchingIn.buf))
    /\ UNCHANGED << input, secretsIn, routerIn, ppVars, sVars, bVars, rVars, runVars, panicked,
                    errLog, sent, fed, ret >>

\* a consumer of the pre-processing stage's output that keeps a record of what it received
ConsumeSecretsIn ==
    /\ panicked = ""
    /\ CanRecv(secretsIn)
    /\ secretsIn' = Recv(secretsIn)
    /\ drained' = Append(drained, Head(secretsIn.buf))
    /\ UNCHANGED << input, batchingIn, routerIn, ppVars, sVars, bVars, rVars, runVars, panicked,
                    errLog, sent, fed, ret >>

\* a producer sends an entry on the batcher's input
FeedBatchingIn(e) ==
    /\ panicked = "" /\ sent < MaxSend
    /\ CanSend(batchingIn, ChanCap)
    /\ batchingIn' = Send(batchingIn, e)
    /\ sent' = sent + 1
    /\ UNCHANGED << fed, drained >>
    /\ UNCHANGED << input, secretsIn, routerIn, ppVars, sVars, bVars, rVars, runVars, panicked,
                    errLog, ret >>

\* the owner of the batcher's input closes it
CloseBatchingIn ==
    /\ panicked = "" /\ ~batchingIn.closed
    /\ batchingIn' = Close(batchingIn)
    /\ UNCHANGED << input, secretsIn, routerIn, ppVars, sVars, bVars, rVars, runVars, panicked,
                    errLog, sent, fed, drained, ret >>

\* a consumer of the batcher drops a Batches it received without recycling it
ConsumerDrop(ref) ==
    /\ panicked = ""
    /\ ref \in consumerHeld
    /\ consumerHeld' = consumerHeld \ {ref}
    /\ UNCHANGED << chanVars, ppVars, sVars, current, heapBatches, heapBatch, batchesPool,
                    batchPool, b_pc, b_held, window, iter, rVars, runVars, panicked, errLog, sent, fed, drained, ret >>

\* a producer sends the next Batches value on the router's input
FeedRouterIn ==
    /\ panicked = "" /\ sent < MaxSend
    /\ CanSend(routerIn, ChanCap)
    /\ routerIn' = Send(routerIn, sent + 1)
    /\ sent' = sent + 1
    /\ UNCHANGED << fed, drained >>
    /\ UNCHANGED << input, secretsIn, batchingIn, ppVars, sVars, bVars, rVars, runVars, panicked,
                    errLog, ret >>

\* the owner of the router's input closes it
CloseRouterIn ==
    /\ panicked = "" /\ ~routerIn.closed
    /\ routerIn' = Close(routerIn)
    /\ UNCHANGED << input, secretsIn, batchingIn, ppVars, sVars, bVars, rVars, runVars, panicked,
                    errLog, sent, fed, drained, ret >>

----------------------------------------------------------------------------
(* The methods of persistentvolumes.Reader called by a host, the informer   *)
(* behind the reader and the consumers of the channels the reader is given. *)

\* the channels a host may hand to SetOut
OutChans == {"input", "other"}
OutArgs == OutChans \cup {"nil"}
ChanOf(name) == IF name = "input" THEN input ELSE other

\* the entries addOrDelete builds from the informer's events
ReaderEntries == { PVEntry(NilObj, K8Object("v1", <<>>), CTAdd) }

\* Reader.SetOut(ctx, out)
SetOut(r, ch) ==
    /\ panicked = ""
    /\ LET e == SetOutResult(rd[r])
       IN /\ rd' = [rd EXCEPT ![r].ch = IF e = "" THEN ch ELSE @]
          /\ ret' = [op |-> "SetOut", reader |-> r, ch |-> ch, err |-> e, before |-> rd[r]]
    /\ UNCHANGED << chanVars, ppVars, sVars, bVars, rVars, readers, r_started, other, runLog,
                    startCalls, mu, calls, panicked, errLog, sent, fed, drained >>

\* Reader.Run(ctx)
Run(r) ==
    /\ panicked = ""
    /\ rd' = [rd EXCEPT ![r] = RunEffect(@, FALSE)]
    /\ ret' = [op |-> "Run", reader |-> r, err |-> RunResult(rd[r], FALSE), before |-> rd[r]]
    /\ UNCHANGED << chanVars, ppVars, sVars, bVars, rVars, readers, r_started, other, runLog,
                    startCalls, mu, calls, panicked, errLog, sent, fed, drained >>

\* addHandler / updateHandler / deleteHandler, called by the informer: c.ch <- e
Handler(r, e) ==
    /\ panicked = "" /\ sent < MaxEntries
    /\ rd[r].producers + rd[r].stopping > 0
    /\ rd[r].ch # "nil"
    /\ LET c == ChanOf(rd[r].ch)
       IN /\ (IF c.closed THEN TRUE ELSE Len(c.buf) < InputCap)
          /\ IF c.closed
             THEN /\ panicked' = "send on closed channel"
                  /\ UNCHANGED << input, other, sent, fed, drained >>
             ELSE /\ input' = IF rd[r].ch = "input" THEN Send(input, e) ELSE input
                  /\ other' = IF rd[r].ch = "other" THEN Send(other, e) ELSE other
                  /\ sent' = sent + 1
                  /\ UNCHANGED << fed, drained >>
                  /\ UNCHANGED panicked
    /\ ret' = [op |-> "handler", reader |-> r, err |-> ""]
    /\ UNCHANGED << secretsIn, batchingIn, routerIn, ppVars, sVars, bVars, rVars, readers,
                    r_started, rd, runLog, startCalls, mu, calls, errLog >>

\* Reader.Close, up to its wait: close(c.stop).  The informer is told to stop.
ReaderCloseBegin(r) ==
    /\ panicked = ""
    /\ IF rd[r].stopClosed
       THEN /\ panicked' = "close of closed channel"
            /\ UNCHANGED rd
       ELSE /\ rd' = [rd EXCEPT ![r] = [@ EXCEPT !.stopClosed = TRUE,
                                                  !.stopping = @ + rd[r].producers,
                                                  !.producers = 0,
                                                  !.closing = @ + 1]]
            /\ UNCHANGED panicked
    /\ ret' = [op |-> "Close", reader |-> r, err |-> ""]
    /\ UNCHANGED << chanVars, ppVars, sVars, bVars, rVars, readers, r_started, other, runLog,
                    startCalls, mu, calls, errLog, sent, fed, drained >>

\* Reader.Close, its return: the context is cancelled or the informer has
\* stopped, and the deferred close(c.ch) runs.  An informer that was never
\* run never reports IsStopped.
ReaderCloseEnd(r, cancelled) ==
    /\ panicked = ""
    /\ rd[r].closing > 0
    /\ (IF cancelled THEN TRUE
        ELSE rd[r].ran /\ rd[r].producers = 0 /\ rd[r].stopping = 0)
    /\ IF rd[r].ch = "nil"
       THEN /\ panicked' = "close of nil channel"
            /\ UNCHANGED << input, other, rd >>
       ELSE IF ChanOf(rd[r].ch).closed
       THEN /\ panicked' = "close of closed channel"
            /\ UNCHANGED << input, other, rd >>
       ELSE /\ input' = IF rd[r].ch = "input" THEN Close(input) ELSE input
            /\ other' = IF rd[r].ch = "other" THEN Close(other) ELSE other
            /\ rd' = [rd EXCEPT ![r].closing = @ - 1]
            /\ UNCHANGED panicked
    /\ UNCHANGED << secretsIn, batchingIn, routerIn, ppVars, sVars, bVars, rVars, readers,
                    r_started, runLog, startCalls, mu, calls, errLog, sent, fed, drained, ret >>

\* an informer that was told to stop has stopped, its handlers have returned
InformerStops(r) ==
    /\ panicked = ""
    /\ rd[r].stopping > 0
    /\ rd' = [rd EXCEPT ![r].stopping = @ - 1]
    /\ UNCHANGED << chanVars, ppVars, sVars, bVars, rVars, readers, r_started, other, runLog,
                    startCalls, mu, calls, panicked, errLog, sent, fed, drained, ret >>

\* the consumer of the shared input receives an entry
DrainInput ==
    /\ panicked = ""
    /\ CanRecv(input)
    /\ input' = Recv(input)
    /\ UNCHANGED << secretsIn, batchingIn, routerIn, ppVars, sVars, bVars, rVars, runVars,
                    panicked, errLog, sent, fed, drained, ret >>

\* the consumer of the host's other channel receives an entry
DrainOther ==
    /\ panicked = ""
    /\ CanRecv(other)
    /\ other' = Recv(other)
    /\ UNCHANGED << chanVars, ppVars, sVars, bVars, rVars, readers, r_started, rd, runLog,
                    startCalls, mu, calls, panicked, errLog, sent, fed, drained, ret >>

----------------------------------------------------------------------------
(* Initial states. *)

\* tattler.New / the constructors: channels open and empty, maps empty, nothing registered.
\* pp: the configured pre-processors; s, b: whether the redactor and the batcher run.
InitWithHeap(pp, s, b, batchesHeap, batchHeap) ==
    /\ input = NewChan /\ secretsIn = NewChan /\ batchingIn = NewChan /\ routerIn = NewChan
    /\ preProcessors = pp
    /\ pp_pc = (IF Len(pp) = 0 THEN "none" ELSE "recv")
    /\ pp_held = ZeroEntry /\ pp_calls = <<>>
    /\ s_pc = (IF s THEN "recv" ELSE "none")
    /\ s_in = ZeroEntry /\ s_held = ZeroEntry
    /\ current = 1 /\ heapBatches = batchesHeap /\ heapBatch = batchHeap
    /\ batchesPool = EmptyBag /\ batchPool = EmptyBag
    /\ b_pc = (IF b THEN "select" ELSE "none")
    /\ b_held = 0 /\ window = <<>> /\ consumerHeld = {}
    /\ iter = NoIter
    /\ routes = <<>> /\ started = FALSE
    /\ sinks = [c \in Chans |-> NewChan]
    /\ loops = <<>> /\ closers = <<>>
    /\ drops = [n \in Names |-> 0]
    /\ received = [c \in Chans |-> <<>>]
    /\ ctx = [done |-> FALSE, at |-> 0]
    /\ readers = <<>> /\ r_started = FALSE
    /\ rd = [r \in Readers |-> NewReader]
    /\ other = NewChan
    /\ runLog = <<>> /\ startCalls = 0
    /\ mu = "" /\ calls = [t \in Callers |-> NoCall]
    /\ panicked = ""
    /\ errLog = [preprocess |-> 0, secrets |-> 0, batcher |-> 0]
    /\ sent = 0 /\ fed = <<>> /\ drained = <<>>
    /\ ret = [op |-> "none", err |-> ""]

\* a process whose only Batches is batching.New's empty current
InitWith(pp, s, b) == InitWithHeap(pp, s, b, << EmptyMap >>, <<>>)

----------------------------------------------------------------------------
(* The redaction stage on its own: safety.New(in, out) with a producer and  *)
(* a consumer.                                                               *)

InitRedactor == InitWith(<<>>, TRUE, FALSE)

NextRedactor ==
    \/ \E e \in RedactorEntries : FeedInput(e)
    \/ CloseInput
    \/ SecretsRecv
    \/ SecretsSend
    \/ SecretsClose
    \/ DrainBatchingIn

SpecRedactor == InitRedactor /\ [][NextRedactor]_vars

\* the redaction stage between a producer and a consumer that record the
\* entries they send and receive
NextRedactorOrder ==
    \/ \E e \in OrderedEntries : ProducerSend(e)
    \/ CloseInput
    \/ SecretsRecv
    \/ SecretsSend
    \/ SecretsClose
    \/ ConsumeBatchingIn

SpecRedactorOrder == InitRedactor /\ [][NextRedactorOrder]_vars

----------------------------------------------------------------------------
(* tattler.New with and without WithPreProcessor, up to the redactor: with  *)
(* processors the pre-processing stage reads the shared input and its       *)
(* output is observed; without them the redactor reads the shared input.    *)

InitChain ==
    \/ InitWith(<<>>, TRUE, FALSE)
    \/ \E pp \in ChainOptions : InitWith(pp, FALSE, FALSE)

NextChain ==
    \/ \E e \in ChainEntries : ProducerSend(e)
    \/ CloseInput
    \/ PreprocRecv
    \/ PreprocSend
    \/ PreprocClose
    \/ ConsumeSecretsIn
    \/ SecretsRecv
    \/ SecretsSend
    \/ SecretsClose
    \/ ConsumeBatchingIn

SpecChain == InitChain /\ [][NextChain]_vars

----------------------------------------------------------------------------
(* The batcher on its own: batching.New(in, out, timespan) with a producer, *)
(* and a consumer that ranges over Out and recycles as the package tells.   *)

InitBatcher == InitWith(<<>>, FALSE, TRUE)

NextBatcher ==
    \/ \E e \in BatcherEntries : FeedBatchingIn(e)
    \/ CloseBatchingIn
    \/ BatcherRecv
    \/ BatcherTickEmpty
    \/ BatcherTick
    \/ BatcherEmitSend
    \/ BatcherClose
    \/ ConsumerRecv
    \/ \E ref \in consumerHeld : Recycle(ref)
    \/ \E ref \in consumerHeld : ConsumerDrop(ref)

SpecBatcher == InitBatcher /\ [][NextBatcher]_vars

----------------------------------------------------------------------------
(* The router on its own, driven by any sequence of Register and Start      *)
(* calls: routing.New(ctx, input) with a producer and the processors.       *)

InitRouter == InitWith(<<>>, FALSE, FALSE)

NextRouter ==
    \/ \E n \in Names, c \in ChanArgs : Len(routes) < MaxRoutes /\ Register(n, c)
    \/ Len(loops) < MaxStarts /\ Start
    \/ FeedRouterIn
    \/ CloseRouterIn
    \/ \E k \in DOMAIN loops : LoopRecv(k)
    \/ \E k \in DOMAIN loops : LoopPush(k)
    \/ \E k \in DOMAIN loops : LoopExit(k)
    \/ \E k \in DOMAIN loops : CloserClose(k)
    \/ \E c \in Chans : SinkRecv(c)

SpecRouter == InitRouter /\ [][NextRouter]_vars

(* The calls on the router in any order with any arguments, and its         *)
(* shutdown, without traffic.                                               *)

NextRegister ==
    \/ \E n \in Names, c \in ChanArgs : Len(routes) < MaxRoutes /\ Register(n, c)
    \/ Len(loops) < MaxStarts /\ Start
    \/ CloseRouterIn
    \/ \E k \in DOMAIN loops : LoopExit(k)
    \/ \E k \in DOMAIN loops : CloserClose(k)

SpecRegister == InitRouter /\ [][NextRegister]_vars

(* The router used as its documentation tells: every sink registered once,  *)
(* under its own name and with its own channel, and Start called until it   *)
(* has succeeded once.                                                      *)

\* neither the name nor the channel is registered yet
Unregistered(n, c) == \A i \in DOMAIN routes : routes[i].name # n /\ routes[i].out # c

NextFanout ==
    \/ \E n \in Names, c \in ChanArgs : Unregistered(n, c) /\ Register(n, c)
    \/ ~started /\ Start
    \/ FeedRouterIn
    \/ CloseRouterIn
    \/ \E k \in DOMAIN loops : LoopRecv(k)
    \/ \E k \in DOMAIN loops : LoopPush(k)
    \/ \E k \in DOMAIN loops : LoopExit(k)
    \/ \E k \in DOMAIN loops : CloserClose(k)
    \/ \E c \in Chans : SinkRecv(c)

SpecFanout == InitRouter /\ [][NextFanout]_vars

----------------------------------------------------------------------------
(* The router used as documented, with processors that keep what they       *)
(* receive and a host that may cancel the context it gave to New and Start. *)

\* a processor receives the next Batches from its channel and keeps it
ProcessorRecv(c) ==
    /\ panicked = ""
    /\ CanRecv(sinks[c])
    /\ sinks' = [sinks EXCEPT ![c] = Recv(@)]
    /\ received' = [received EXCEPT ![c] = Append(@, Head(sinks[c].buf))]
    /\ UNCHANGED << chanVars, ppVars, sVars, bVars, routes, started, loops, closers, drops, ctx,
                    runVars, panicked, errLog, sent, fed, drained, ret >>

\* the host cancels the context; at: the Batches fed to the router so far
CancelCtx ==
    /\ panicked = "" /\ ~ctx.done
    /\ ctx' = [done |-> TRUE, at |-> sent]
    /\ UNCHANGED << chanVars, ppVars, sVars, bVars, routes, started, sinks, loops, closers,
                    drops, received, runVars, panicked, errLog, sent, fed, drained, ret >>

NextDelivery ==
    \/ \E n \in Names, c \in ChanArgs : Unregistered(n, c) /\ Register(n, c)
    \/ ~started /\ Start
    \/ CancelCtx
    \/ FeedRouterIn
    \/ CloseRouterIn
    \/ \E k \in DOMAIN loops : LoopRecv(k)
    \/ \E k \in DOMAIN loops : LoopPush(k)
    \/ \E k \in DOMAIN loops : LoopExit(k)
    \/ \E k \in DOMAIN loops : CloserClose(k)
    \/ \E c \in Chans : ProcessorRecv(c)

SpecDelivery == InitRouter /\ [][NextDelivery]_vars

\* the routing goroutine and the closer goroutine are scheduled
DeliveryFairness ==
    /\ WF_vars(\E k \in DOMAIN loops : LoopRecv(k) \/ LoopPush(k) \/ LoopExit(k))
    /\ WF_vars(\E k \in DOMAIN loops : CloserClose(k))

LiveSpecDelivery == SpecDelivery /\ DeliveryFairness

----------------------------------------------------------------------------
(* The Runner's methods called in any order with any arguments, and the     *)
(* shutdown of the router it starts.  Processors are added under names and  *)
(* channels not registered before; repeated registrations are the subject   *)
(* of SpecRegister.                                                         *)

NextRunner ==
    \/ \E r \in Readers, f \in BOOLEAN : Len(readers) < MaxReaders /\ AddReader(r, f)
    \/ \E n \in Names, c \in ChanArgs :
          Len(routes) < MaxRoutes /\ Unregistered(n, c) /\ AddProcessor(n, c)
    \/ \E fails \in SUBSET Readers : startCalls < MaxStarts /\ RunnerStart(fails)
    \/ CloseRouterIn
    \/ \E k \in DOMAIN loops : LoopExit(k)
    \/ \E k \in DOMAIN loops : CloserClose(k)

SpecRunner == InitRouter /\ [][NextRunner]_vars

----------------------------------------------------------------------------
(* The Runner's methods called by concurrent goroutines of the host.  A     *)
(* method takes r.mu at its entry and releases it in a deferred Unlock when  *)
(* it returns; Reader.Run blocks in cache.WaitForCacheSync in between.       *)

\* a caller inside a method: at pc, for Start about to run reader number i
InCall(pc, op, reader, i, err) ==
    [pc |-> pc, op |-> op, reader |-> reader, i |-> i, err |-> err]

\* the reader a caller is about to run, or is running
RunTarget(c) == IF c.op = "Start" THEN readers[c.i] ELSE c.reader

\* Reader.Run up to cache.WaitForCacheSync: the error of its two checks
RunChecks(state) ==
    IF state.started THEN "cannot call Run once the Reader has already started"
    ELSE IF state.ch = "nil" THEN "cannot call Run if SetOut has not been called"
    ELSE ""

\* Start: r.mu.Lock(); defer r.mu.Unlock()
StartLock(t) ==
    /\ panicked = "" /\ calls[t].pc = "idle" /\ mu = ""
    /\ mu' = t
    /\ calls' = [calls EXCEPT ![t] =
                    InCall(IF Len(readers) > 0 THEN "run" ELSE "router", "Start", "", 1, "")]
    /\ startCalls' = startCalls + 1
    /\ UNCHANGED << chanVars, ppVars, sVars, bVars, rVars, readers, r_started, rd, other, runLog,
                    panicked, errLog, sent, fed, drained, ret >>

\* AddReader: r.mu.Lock(); defer r.mu.Unlock(); reader.SetOut(ctx, r.input);
\* without r.started the reader is appended, with it the reader is run first
AddReaderLock(t, reader) ==
    /\ panicked = "" /\ calls[t].pc = "idle" /\ mu = ""
    /\ mu' = t
    /\ LET e == SetOutResult(rd[reader])
       IN /\ rd' = [rd EXCEPT ![reader].ch = IF e = "" THEN "input" ELSE @]
          /\ readers' = IF e = "" /\ ~r_started THEN Append(readers, reader) ELSE readers
          /\ calls' = [calls EXCEPT ![t] =
                          InCall(IF e = "" /\ r_started THEN "run" ELSE "return",
                                 "AddReader", reader, 0, e)]
    /\ UNCHANGED << chanVars, ppVars, sVars, bVars, rVars, r_started, other, runLog, startCalls,
                    panicked, errLog, sent, fed, drained, ret >>

\* AddProcessor: r.mu.Lock(); defer r.mu.Unlock(); the check of r.started and
\* r.router.Register, which does not block
AddProcessorLock(t, name, ch) ==
    /\ panicked = "" /\ calls[t].pc = "idle" /\ mu = ""
    /\ mu' = t
    /\ LET err == IF r_started THEN "cannot add a processor after Runner has started"
                  ELSE RegisterResult(started, name, ch)
       IN /\ routes' = IF err = "" THEN Append(routes, route(name, ch)) ELSE routes
          /\ calls' = [calls EXCEPT ![t] = InCall("return", "AddProcessor", name, 0, err)]
    /\ UNCHANGED << chanVars, ppVars, sVars, bVars, started, sinks, loops, closers, drops,
                    received, ctx, readers, r_started, rd, other, runLog, startCalls,
                    panicked, errLog, sent, fed, drained, ret >>

\* reader.Run(ctx) up to cache.WaitForCacheSync: the checks, r.started = true,
\* go r.informer.Run(r.stop)
RunBegin(t) ==
    /\ panicked = "" /\ calls[t].pc = "run"
    /\ LET r == RunTarget(calls[t])
           e == RunChecks(rd[r])
       IN /\ rd' = [rd EXCEPT ![r].started = IF e = "" THEN TRUE ELSE @]
          /\ calls' = [calls EXCEPT ![t].pc = IF e = "" THEN "sync" ELSE "return",
                                    ![t].err = e]
    /\ UNCHANGED << chanVars, ppVars, sVars, bVars, rVars, readers, r_started, other, runLog,
                    startCalls, mu, panicked, errLog, sent, fed, drained, ret >>

\* cache.WaitForCacheSync returns and Run with it; Start goes on to its next
\* reader or to the router, AddReader appends the reader
RunSynced(t, syncFails) ==
    /\ panicked = "" /\ calls[t].pc = "sync"
    /\ LET c == calls[t]
           r == RunTarget(c)
           before == [rd[r] EXCEPT !.started = FALSE]
           e == RunResult(before, syncFails)
       IN /\ rd' = [rd EXCEPT ![r] = RunEffect(before, syncFails)]
          /\ readers' = IF e = "" /\ c.op = "AddReader" THEN Append(readers, r) ELSE readers
          /\ calls' = [calls EXCEPT ![t] =
                IF e # "" \/ c.op = "AddReader" THEN InCall("return", c.op, c.reader, c.i, e)
                ELSE InCall(IF c.i < Len(readers) THEN "run" ELSE "router",
                            c.op, c.reader, c.i + 1, "")]
    /\ UNCHANGED << chanVars, ppVars, sVars, bVars, rVars, r_started, other, runLog,
                    startCalls, mu, panicked, errLog, sent, fed, drained, ret >>

\* Start after its loop: r.router.Start(ctx)
StartRouter(t) ==
    /\ panicked = "" /\ calls[t].pc = "router"
    /\ IF StartResult = ""
       THEN StartEffect
       ELSE UNCHANGED << started, loops, closers >>
    /\ calls' = [calls EXCEPT ![t].pc = "return", ![t].err = StartResult]
    /\ UNCHANGED << chanVars, ppVars, sVars, bVars, routes, sinks, drops, received, ctx,
                    readers, r_started, rd, other, runLog, startCalls, mu,
                    panicked, errLog, sent, fed, drained, ret >>

\* the method returns: the deferred r.mu.Unlock() runs
Unlock(t) ==
    /\ panicked = "" /\ calls[t].pc = "return"
    /\ mu' = ""
    /\ calls' = [calls EXCEPT ![t] = NoCall]
    /\ ret' = [op |-> calls[t].op, err |-> calls[t].err]
    /\ UNCHANGED << chanVars, ppVars, sVars, bVars, rVars, readers, r_started, rd, other, runLog,
                    startCalls, panicked, errLog, sent, fed, drained >>

NextConcurrent ==
    \/ \E t \in Callers : startCalls < MaxStarts /\ StartLock(t)
    \/ \E t \in Callers, r \in Readers : Len(readers) < MaxReaders /\ AddReaderLock(t, r)
    \/ \E t \in Callers, n \in Names, c \in ChanArgs :
          Len(routes) < MaxRoutes /\ Unregistered(n, c) /\ AddProcessorLock(t, n, c)
    \/ \E t \in Callers : RunBegin(t)
    \/ \E t \in Callers, f \in BOOLEAN : RunSynced(t, f)
    \/ \E t \in Callers : StartRouter(t)
    \/ \E t \in Callers : Unlock(t)

SpecConcurrent == InitRouter /\ [][NextConcurrent]_vars

----------------------------------------------------------------------------
(* The pipeline tattler.New builds, used as documented: processors added    *)
(* under their own names with their own channels, Start called once after   *)
(* them, the shared input closed by its owner after the last send.          *)

\* the WithPreProcessor options of a run: none, or two processors
PreProcessorOptions == { <<>>, << "rejectNode", "rejectZero" >> }

\* the processors the host adds, in the order it adds them
HostProcessors == << route("a", "c1"), route("b", "c2") >>

Init == \E pp \in PreProcessorOptions : InitWith(pp, TRUE, TRUE)

Next ==
    \/ /\ Len(routes) < Len(HostProcessors)
       /\ AddProcessor(HostProcessors[Len(routes) + 1].name, HostProcessors[Len(routes) + 1].out)
    \/ startCalls = 0 /\ Len(routes) > 0 /\ RunnerStart({})
    \/ \E e \in PipelineEntries : FeedInput(e)
    \/ CloseInput
    \/ PreprocRecv
    \/ PreprocSend
    \/ PreprocClose
    \/ SecretsRecv
    \/ SecretsSend
    \/ SecretsClose
    \/ BatcherRecv
    \/ BatcherTickEmpty
    \/ BatcherTick
    \/ BatcherEmitSend
    \/ BatcherClose
    \/ \E k \in DOMAIN loops : LoopRecv(k)
    \/ \E k \in DOMAIN loops : LoopPush(k)
    \/ \E k \in DOMAIN loops : LoopExit(k)
    \/ \E k \in DOMAIN loops : CloserClose(k)
    \/ \E c \in Chans : SinkRecv(c)

Spec == Init /\ [][Next]_vars

\* every goroutine of the pipeline that can take a step eventually takes one;
\* nothing is assumed of the callers, the producers and the processors
Fairness ==
    /\ WF_vars(PreprocRecv \/ PreprocSend \/ PreprocClose)
    /\ WF_vars(SecretsRecv \/ SecretsSend \/ SecretsClose)
    /\ WF_vars(BatcherRecv \/ BatcherTick \/ BatcherEmitSend \/ BatcherClose)
    /\ WF_vars(\E k \in DOMAIN loops : LoopRecv(k) \/ LoopPush(k) \/ LoopExit(k))
    /\ WF_vars(\E k \in DOMAIN loops : CloserClose(k))

LiveSpec == Spec /\ Fairness

\* only the batcher and the routing goroutine are scheduled
RouterFairness ==
    /\ WF_vars(BatcherRecv \/ BatcherTick \/ BatcherEmitSend \/ BatcherClose)
    /\ WF_vars(\E k \in DOMAIN loops : LoopRecv(k) \/ LoopPush(k) \/ LoopExit(k))

LiveSpecRouter == Spec /\ RouterFairness

----------------------------------------------------------------------------
(* The pipeline with one processor, started and fed while its shared input  *)
(* stays open: nothing closes, no stage ends.  The producer sends every      *)
(* entry at most once, so that an entry is told from the ones before it.     *)

\* the elements of a sequence
Elements(seq) == { seq[i] : i \in DOMAIN seq }

NextFlow ==
    \/ Len(routes) = 0 /\ AddProcessor("a", "c1")
    \/ startCalls = 0 /\ Len(routes) > 0 /\ RunnerStart({})
    \/ \E e \in FlowEntries : e \notin Elements(fed) /\ ProducerSend(e)
    \/ PreprocRecv
    \/ PreprocSend
    \/ SecretsRecv
    \/ SecretsSend
    \/ BatcherRecv
    \/ BatcherTickEmpty
    \/ BatcherTick
    \/ BatcherEmitSend
    \/ \E k \in DOMAIN loops : LoopRecv(k)
    \/ \E k \in DOMAIN loops : LoopPush(k)

SpecFlow == Init /\ [][NextFlow]_vars

\* the goroutines of the stages and of the router are scheduled, and the
\* batcher's ticker fires
FlowFairness ==
    /\ WF_vars(PreprocRecv \/ PreprocSend)
    /\ WF_vars(SecretsRecv \/ SecretsSend)
    /\ WF_vars(BatcherRecv \/ BatcherTick \/ BatcherEmitSend)
    /\ WF_vars(\E k \in DOMAIN loops : LoopRecv(k) \/ LoopPush(k))

LiveSpecFlow == SpecFlow /\ FlowFairness

----------------------------------------------------------------------------
(* The pipeline with two processors.  The router hands the Batches it takes *)
(* to both; the processor of c1 recycles what it received once it is done   *)
(* with it, the processor of c2 keeps reading what it received.             *)

\* the processor of c1 receives the next Batches from its channel
RecyclerRecv ==
    /\ panicked = ""
    /\ CanRecv(sinks["c1"])
    /\ sinks' = [sinks EXCEPT !["c1"] = Recv(@)]
    /\ received' = [received EXCEPT !["c1"] = Append(@, Head(sinks["c1"].buf))]
    /\ consumerHeld' = consumerHeld \cup {Head(sinks["c1"].buf)}
    /\ UNCHANGED << chanVars, ppVars, sVars, current, heapBatches, heapBatch, batchesPool,
                    batchPool, b_pc, b_held, window, iter, routes, started, loops, closers,
                    drops, ctx, runVars, panicked, errLog, sent, fed, drained, ret >>

NextShared ==
    \/ Len(routes) = 0 /\ AddProcessor("a", "c1")
    \/ Len(routes) = 1 /\ AddProcessor("b", "c2")
    \/ startCalls = 0 /\ Len(routes) = 2 /\ RunnerStart({})
    \/ \E e \in FlowEntries : e \notin Elements(fed) /\ ProducerSend(e)
    \/ PreprocRecv
    \/ PreprocSend
    \/ SecretsRecv
    \/ SecretsSend
    \/ BatcherRecv
    \/ BatcherTickEmpty
    \/ BatcherTick
    \/ BatcherEmitSend
    \/ \E k \in DOMAIN loops : LoopRecv(k)
    \/ \E k \in DOMAIN loops : LoopPush(k)
    \/ RecyclerRecv
    \/ \E ref \in consumerHeld : Recycle(ref)
    \/ ProcessorRecv("c2")

SpecShared == Init /\ [][NextShared]_vars

----------------------------------------------------------------------------
(* The event handlers of a reader: the informer of a reader that was set  *)
(* up and run delivers add, update and delete events.                     *)

\* What the informer hands to a handler as `any`: the nil interface, a
\* *v1.PersistentVolume (a nil pointer or an object) or a value of another
\* type (a *v1.Pod).
EventNil == [kind |-> "nil", obj |-> NilObj]
EventObject(kind, obj) == [kind |-> kind, obj |-> obj]
EventObjects ==
    { EventNil,
      EventObject("PersistentVolume", NilObj),
      EventObject("PersistentVolume", K8Object("v1", <<>>)),
      EventObject("PersistentVolume", K8Object("v2", <<>>)),
      EventObject("Pod", K8Object("p1", <<>>)) }

\* what a handler did: the error it returned ("" for nil), the panic that ended
\* it, whether it reached c.ch <- e and with which Entry
Handled(err, panic, entry) ==
    [err |-> err, panic |-> panic, sends |-> (err = "" /\ panic = ""), entry |-> entry]

\* the end of addOrDelete and update: data.NewEntry(d), then the send
entryOf(d) ==
    IF NewEntry(d).ok THEN Handled("", "", NewEntry(d).val)
    ELSE Handled("invalid type", "", ZeroEntry)

\* Reader.addOrDelete(obj, ct)
addOrDelete(obj, ct) ==
    IF obj.kind = "nil" THEN Handled("obj cannot be nil", "", ZeroEntry)
    ELSE IF obj.kind = "PersistentVolume"
    THEN IF ct \notin {CTAdd, CTDelete} THEN Handled("unsupported change type", "", ZeroEntry)
         ELSE LET pvc == Change("PersistentVolume",
                                IF ct = CTDelete THEN obj.obj ELSE NilObj,
                                IF ct = CTAdd THEN obj.obj ELSE NilObj,
                                ct, OTPersistentVolume)
              IN IF ~NewPersistentVolume(pvc).ok THEN Handled("invalid type", "", ZeroEntry)
                 ELSE entryOf(NewPersistentVolume(pvc).val)
    ELSE Handled("unknown object type", "", ZeroEntry)

\* Reader.update(oldObj, newObj)
update(oldObj, newObj) ==
    IF oldObj.kind = "nil" \/ newObj.kind = "nil"
    THEN Handled("oldObj and newObj cannot be nil", "", ZeroEntry)
    ELSE IF oldObj.kind # newObj.kind THEN Handled("not the same type", "", ZeroEntry)
    ELSE IF newObj.kind = "PersistentVolume"
    THEN LET pvc == Change("PersistentVolume", oldObj.obj, newObj.obj, CTUpdate,
                           OTPersistentVolume)
         IN IF ~NewPersistentVolume(pvc).ok THEN Handled("", "wtf", ZeroEntry)
            ELSE entryOf(NewPersistentVolume(pvc).val)
    ELSE Handled("unknown object type", "", ZeroEntry)

\* addHandler, updateHandler or deleteHandler of reader r called by its informer
HandleEvent(r, handler, oldObj, newObj) ==
    LET h == CASE handler = "add" -> addOrDelete(newObj, CTAdd)
               [] handler = "delete" -> addOrDelete(oldObj, CTDelete)
               [] OTHER -> update(oldObj, newObj)
        c == ChanOf(rd[r].ch)
    IN /\ panicked = "" /\ sent < MaxEntries
       /\ rd[r].producers + rd[r].stopping > 0
       /\ rd[r].ch # "nil"
       /\ h.sends => (c.closed \/ Len(c.buf) < InputCap)
       /\ panicked' = IF h.panic # "" THEN h.panic
                      ELSE IF h.sends /\ c.closed THEN "send on closed channel"
                      ELSE panicked
       /\ input' = IF h.sends /\ ~c.closed /\ rd[r].ch = "input"
                   THEN Send(input, h.entry) ELSE input
       /\ other' = IF h.sends /\ ~c.closed /\ rd[r].ch = "other"
                   THEN Send(other, h.entry) ELSE other
       /\ sent' = sent + 1
       /\ UNCHANGED << fed, drained >>
       /\ ret' = [op |-> "event", reader |-> r, handler |-> handler, old |-> oldObj,
                  new |-> newObj, err |-> h.err, sends |-> h.sends, entry |-> h.entry]
       /\ UNCHANGED << secretsIn, batchingIn, routerIn, ppVars, sVars, bVars, rVars, readers,
                       r_started, rd, runLog, startCalls, mu, calls, errLog >>

InitHandlers == InitWith(<<>>, FALSE, FALSE)

NextHandlers ==
    \/ SetOut("r1", "input")
    \/ Run("r1")
    \/ \E obj \in EventObjects : HandleEvent("r1", "add", EventNil, obj)
    \/ \E obj \in EventObjects : HandleEvent("r1", "delete", obj, EventNil)
    \/ \E oldObj \in EventObjects, newObj \in EventObjects :
         HandleEvent("r1", "update", oldObj, newObj)
    \/ DrainInput

SpecHandlers == InitHandlers /\ [][NextHandlers]_vars

-----------------------------------------------------------------------------
(* Scenario S5: a Node is added, a Pod is added and the Node is deleted,    *)
(* fed to the batcher in that order, the tick firing when it likes.        *)

S5AddNode == InformerEntry("Node", NilObj, K8Object("n1", <<>>), CTAdd, OTNode)
S5AddPod == InformerEntry("Pod", NilObj, K8Object("p1", <<>>), CTAdd, OTPod)
S5DeleteNode == InformerEntry("Node", K8Object("n1", <<>>), NilObj, CTDelete, OTNode)
S5Feed == << S5AddNode, S5AddPod, S5DeleteNode >>

FeedS5 == sent < Len(S5Feed) /\ FeedBatchingIn(S5Feed[sent + 1])

NextS5 ==
    \/ FeedS5
    \/ CloseBatchingIn
    \/ BatcherRecv
    \/ BatcherTickEmpty
    \/ BatcherTick
    \/ BatcherEmitSend
    \/ BatcherClose
    \/ ConsumerRecv
    \/ \E ref \in consumerHeld : Recycle(ref)

SpecS5 == InitBatcher /\ [][NextS5]_vars

-----------------------------------------------------------------------------
(* Batches.Iter: a consumer that holds a Batches value calls Iter(ctx) on it, *)
(* receives from the channel when it likes and may cancel ctx at any time.   *)

IterCap == 1

iterUnchanged ==
    UNCHANGED << chanVars, ppVars, sVars, current, heapBatches, heapBatch, batchesPool,
                 batchPool, b_pc, b_held, window, consumerHeld, rVars, runVars, panicked,
                 errLog, sent, fed, drained, ret >>

\* b.Iter(ctx): ch := make(chan data.Entry, 1); go func() {...}(); return ch
IterStart ==
    /\ panicked = "" /\ iter.pc = "none"
    /\ iter' = [iter EXCEPT !.pc = "range", !.ch = NewChan, !.ref = current,
                             !.outer = DOMAIN heapBatches[current]]
    /\ iterUnchanged

\* for _, batch := range b: the next Batch, in the order the map range picks
IterNextBatch ==
    /\ panicked = "" /\ iter.pc = "range"
    /\ iter.inner = {} /\ iter.outer # {}
    /\ \E t \in iter.outer :
         iter' = [iter EXCEPT !.outer = @ \ {t}, !.batch = heapBatches[iter.ref][t],
                              !.inner = DOMAIN heapBatch[heapBatches[iter.ref][t]]]
    /\ iterUnchanged

\* select dropping the entry when ch is full instead of waiting
IterSend_dropfull ==
    /\ panicked = "" /\ iter.pc = "range"
    /\ iter.inner # {}
    /\ \E u \in iter.inner :
         iter' = [iter EXCEPT !.inner = @ \ {u},
                              !.ch = IF CanSend(iter.ch, IterCap)
                                     THEN Send(@, heapBatch[iter.batch][u]) ELSE @]
    /\ iterUnchanged

\* for _, d := range batch { select { case ch <- d: } }
IterSend ==
    /\ panicked = "" /\ iter.pc = "range"
    /\ iter.inner # {}
    /\ CanSend(iter.ch, IterCap)
    /\ \E u \in iter.inner :
         iter' = [iter EXCEPT !.inner = @ \ {u}, !.ch = Send(@, heapBatch[iter.batch][u])]
    /\ iterUnchanged

\* case <-ctx.Done(): return, without the deferred close(ch)
IterCancelled_noclose ==
    /\ panicked = "" /\ iter.pc = "range"
    /\ iter.inner # {}
    /\ iter.done
    /\ iter' = [iter EXCEPT !.pc = "done"]
    /\ iterUnchanged

\* select { case <-ctx.Done(): return }: the deferred close(ch) runs
IterCancelled ==
    /\ panicked = "" /\ iter.pc = "range"
    /\ iter.inner # {}
    /\ iter.done
    /\ iter' = [iter EXCEPT !.pc = "done", !.ch = Close(@)]
    /\ iterUnchanged

\* both ranges are exhausted: the goroutine returns, the deferred close(ch) runs
IterExhausted ==
    /\ panicked = "" /\ iter.pc = "range"
    /\ iter.inner = {} /\ iter.outer = {}
    /\ iter' = [iter EXCEPT !.pc = "done", !.ch = Close(@)]
    /\ iterUnchanged

\* the consumer cancels ctx
IterCancel ==
    /\ panicked = "" /\ ~iter.done
    /\ iter' = [iter EXCEPT !.done = TRUE]
    /\ iterUnchanged

\* the consumer receives from the channel Iter returned
IterRecv ==
    /\ panicked = "" /\ iter.pc # "none"
    /\ CanRecv(iter.ch)
    /\ iter' = [iter EXCEPT !.ch = Recv(@), !.got = Append(@, Head(iter.ch.buf))]
    /\ iterUnchanged

\* The Batches values Iter is called on: a Batch of Informer entries and a
\* Batch of PersistentVolume entries, each over some of the UIDs, stored under
\* its key when it is not empty.
IterUIDs == {"u1", "u2"}
IterEntry(t, u) ==
    IF t = ETInformer
    THEN InformerEntry("Pod", NilObj, K8Object(u, <<>>), CTAdd, OTPod)
    ELSE PVEntry(NilObj, K8Object(u, <<>>), CTAdd)
IterBatch(t, uids) == [u \in uids |-> IterEntry(t, u)]
IterBatches(informers, volumes) ==
    [t \in {x \in {ETInformer, ETPersistentVolume} :
                (IF x = ETInformer THEN informers ELSE volumes) # {}} |->
        IF t = ETInformer THEN 1 ELSE 2]

InitIter ==
    \E informers \in SUBSET IterUIDs, volumes \in SUBSET IterUIDs :
        InitWithHeap(<<>>, FALSE, FALSE, << IterBatches(informers, volumes) >>,
                     << IterBatch(ETInformer, informers),
                        IterBatch(ETPersistentVolume, volumes) >>)

NextIter ==
    \/ IterStart
    \/ IterNextBatch
    \/ IterSend
    \/ IterCancelled
    \/ IterExhausted
    \/ IterCancel
    \/ IterRecv

SpecIter == InitIter /\ [][NextIter]_vars

\* the producer goroutine of Iter, once started, is scheduled
IterFairness == WF_vars(IterNextBatch \/ IterSend \/ IterCancelled \/ IterExhausted)

\* a consumer that may stop receiving
LiveSpecIter == SpecIter /\ IterFairness

\* a consumer that drains the channel
LiveSpecIterDrain == SpecIter /\ IterFairness /\ WF_vars(IterRecv)

-----------------------------------------------------------------------------
\* The data package on its own: a caller of NewChange, NewInformer and
\* NewPersistentVolume.  T ranges over the four Kubernetes kinds the package
\* has an ObjectType for, the objects over nil and two objects, ChangeType and
\* ObjectType (both uint8) over their constants and one value beyond them.
\* The functions keep no state, so a behaviour is one call.
Kinds == {"Node", "Pod", "Namespace", "PersistentVolume"}
DataObjects == {NilObj, K8Object("u1", <<>>), K8Object("u2", <<>>)}
ChangeTypes == CTUnknown..(CTDelete + 1)
ObjectTypes == OTUnknown..(OTPersistentVolume + 1)
Changes ==
    { Change(T, old, new, ct, ot) :
        T \in Kinds, old \in DataObjects, new \in DataObjects,
        ct \in ChangeTypes, ot \in ObjectTypes }

dataUnchanged ==
    UNCHANGED << chanVars, ppVars, sVars, bVars, rVars, runVars, panicked, errLog, sent, fed, drained >>

CallNewChange(T, newObj, oldObj, ct) ==
    /\ ret.op = "none"
    /\ ret' = [op |-> "NewChange", T |-> T, new |-> newObj, old |-> oldObj, ct |-> ct,
               err |-> NewChange(T, newObj, oldObj, ct).err,
               val |-> NewChange(T, newObj, oldObj, ct).val]
    /\ dataUnchanged

CallNewInformer(c) ==
    /\ ret.op = "none"
    /\ ret' = [op |-> "NewInformer", change |-> c,
               ok |-> NewInformer(c).ok, val |-> NewInformer(c).val]
    /\ dataUnchanged

CallNewPersistentVolume(c) ==
    /\ ret.op = "none"
    /\ ret' = [op |-> "NewPersistentVolume", change |-> c,
               ok |-> NewPersistentVolume(c).ok, val |-> NewPersistentVolume(c).val]
    /\ dataUnchanged

\* NewInformer or NewPersistentVolume followed by NewEntry, as the readers
\* build an Entry from a Change: [ok, val]
BuildEntry(wrapper, c) ==
    LET d == IF wrapper = "Informer" THEN NewInformer(c) ELSE NewPersistentVolume(c)
    IN IF ~d.ok THEN [ok |-> FALSE, val |-> ZeroEntry] ELSE NewEntry(d.val)

\* e.UID() on an Entry built from a Change
CallUID(wrapper, c) ==
    /\ ret.op = "none"
    /\ BuildEntry(wrapper, c).ok
    /\ ret' = [op |-> "Entry.UID", change |-> c, entry |-> BuildEntry(wrapper, c).val,
               uid |-> UID(BuildEntry(wrapper, c).val)]
    /\ dataUnchanged

\* Entry{}.UID(): an Entry with no inner data
CallUIDZero ==
    /\ ret.op = "none"
    /\ ret' = [op |-> "Entry.UID", change |-> NoChange, entry |-> ZeroEntry,
               uid |-> UID(ZeroEntry)]
    /\ dataUnchanged

InitData == InitWith(<<>>, FALSE, FALSE)

NextData ==
    \/ \E T \in Kinds, newObj \in DataObjects, oldObj \in DataObjects, ct \in ChangeTypes :
         CallNewChange(T, newObj, oldObj, ct)
    \/ \E c \in Changes : CallNewInformer(c)
    \/ \E c \in Changes : CallNewPersistentVolume(c)
    \/ \E wrapper \in {"Informer", "PersistentVolume"}, c \in Changes : CallUID(wrapper, c)
    \/ CallUIDZero

SpecData == InitData /\ [][NextData]_vars

(* Two readers driven by a host that calls their methods in any order; the  *)
(* host never closes a channel itself.                                      *)

InitReader == InitWith(<<>>, FALSE, FALSE)

NextReader ==
    \/ \E r \in Readers, c \in OutArgs : SetOut(r, c)
    \/ \E r \in Readers : Run(r)
    \/ \E r \in Readers, e \in ReaderEntries : Handler(r, e)
    \/ \E r \in Readers : rd[r].closing < MaxCloses /\ ReaderCloseBegin(r)
    \/ \E r \in Readers, cancelled \in BOOLEAN : ReaderCloseEnd(r, cancelled)
    \/ \E r \in Readers : InformerStops(r)
    \/ DrainInput
    \/ DrainOther

SpecReader == InitReader /\ [][NextReader]_vars

----------------------------------------------------------------------------
(* Redaction properties. *)

\* the credential words of the specification, section 6
CredentialWords ==
    { <<"t","o","k","e","n">>, <<"p","a","s","s">>, <<"p","w","d">>, <<"j","w","t">>,
      <<"h","a","s","h">>, <<"s","e","c","r","e","t">>, <<"b","e","a","r","e","r">>,
      <<"c","r","e","d">>, <<"s","e","c","u","r","e">>, <<"s","i","g","n","i","n","g">>,
      <<"c","e","r","t">>, <<"c","o","d","e">>, <<"k","e","y">> }

IsCredentialName(name) == \E w \in CredentialWords : ContainsFold(name, w)

\* an entry of EntryType Informer and ObjectType Pod
IsInformerPod(e) == e.Type = ETInformer /\ e.data.src = "Informer" /\ e.data.Type = OTPod

\* the pod an entry carries as its latest state
LatestPod(e) == IF e.data.data.ChangeType = CTDelete THEN e.data.data.Old ELSE e.data.data.New

\* the entry with the containers of its latest pod replaced
WithLatestContainers(e, cs) ==
    IF e.data.data.ChangeType = CTDelete
    THEN [e EXCEPT !.data.data.Old.containers = cs]
    ELSE [e EXCEPT !.data.data.New.containers = cs]

\* C3: every Informer/Pod entry about to leave the redactor has, in every
\* container of its pod, REDACTED as the value of every env var whose name
\* contains a credential word (ignoring case) and the input value for every
\* other env var, and is otherwise its input; every other entry that leaves
\* the redactor equals its input.
C3_Redaction ==
    s_pc = "send" =>
        IF IsInformerPod(s_in)
        THEN /\ IsInformerPod(s_held)
             /\ DOMAIN LatestPod(s_held).containers = DOMAIN LatestPod(s_in).containers
             /\ \A c \in DOMAIN LatestPod(s_in).containers :
                  LET before == LatestPod(s_in).containers[c]
                      after == LatestPod(s_held).containers[c]
                  IN /\ DOMAIN after = DOMAIN before
                     /\ \A i \in DOMAIN before :
                          /\ after[i].Name = before[i].Name
                          /\ after[i].Value = IF IsCredentialName(before[i].Name)
                                              THEN "REDACTED" ELSE before[i].Value
             /\ WithLatestContainers(s_held, LatestPod(s_in).containers) = s_in
        ELSE s_held = s_in

\* an Informer/Pod entry is about to leave with a value redacted in its second
\* container and a value kept in its first
C3_Witness ==
    /\ s_pc = "send" /\ IsInformerPod(s_in)
    /\ Len(LatestPod(s_in).containers) = 2
    /\ \E i \in DOMAIN LatestPod(s_in).containers[2] :
         /\ LatestPod(s_in).containers[2][i].Value # "REDACTED"
         /\ LatestPod(s_held).containers[2][i].Value = "REDACTED"
    /\ \E i \in DOMAIN LatestPod(s_in).containers[1] :
         LatestPod(s_held).containers[1][i].Value = "my-value"

----------------------------------------------------------------------------
(* Batching properties. *)

\* for every (EntryType, UID) of a sequence of entries, the last entry with it
LastWins(w) ==
    [t \in { w[i].Type : i \in DOMAIN w } |->
        [u \in { UID(w[i]) : i \in { j \in DOMAIN w : w[j].Type = t } } |->
            w[CHOOSE i \in DOMAIN w :
                /\ w[i].Type = t /\ UID(w[i]) = u
                /\ \A j \in DOMAIN w : (w[j].Type = t /\ UID(w[j]) = u) => j <= i]]]

\* C1: the Batches being emitted holds, for every (EntryType, UID) among the
\* entries with a non-empty UID accepted since the last emission, exactly the
\* last entry received with that type and UID under the key type / UID, and
\* holds nothing else.
C1_LastEventWins ==
    b_pc = "emit" => Deref(b_held) = LastWins(window)

\* an emission after an Add and then a Delete of one UID, with an entry of
\* another EntryType and the same UID in between
C1_Witness ==
    /\ b_pc = "emit" /\ Len(window) = 3
    /\ window[1].Type = window[3].Type /\ UID(window[1]) = UID(window[3])
    /\ window[1] # window[3]
    /\ window[2].Type # window[1].Type /\ UID(window[2]) = UID(window[1])

----------------------------------------------------------------------------
(* Routing properties. *)

\* C2: each Batches a routing loop has read is pushed to the routes one after
\* the other, once each; a push to a sink whose channel has room appends the
\* Batches to that channel and logs nothing; a push to a sink whose channel is
\* full leaves the channel as it is and logs one drop under the sink's name;
\* no push touches the channel of another sink, so the outcome depends on the
\* sink's own channel alone.
C2_FanOut ==
    [][\A k \in DOMAIN loops :
        /\ (loops[k].pc = "recv" /\ loops'[k].pc = "push") =>
              loops'[k] = [pc |-> "push", b |-> Head(routerIn.buf), i |-> 1]
        /\ (loops[k].pc = "push" /\ loops'[k] # loops[k]) =>
              LET i == loops[k].i
                  r == routes[i]
                  b == loops[k].b
                  ch == sinks[r.out]
              IN /\ IF Len(ch.buf) < SinkCap
                    THEN sinks'[r.out] = [ch EXCEPT !.buf = Append(ch.buf, b)] /\ drops' = drops
                    ELSE sinks'[r.out] = ch /\ drops' = [drops EXCEPT ![r.name] = @ + 1]
                 /\ \A c \in Chans \ {r.out} : sinks'[c] = sinks[c]
                 /\ panicked' = ""
                 /\ IF i < Len(routes)
                    THEN loops'[k] = [pc |-> "push", b |-> b, i |-> i + 1]
                    ELSE loops'[k].pc = "recv"
      ]_vars

\* scenario S3: two sinks, two Batches; the sink that is not read holds the
\* first and has one drop logged, the other sink was read and holds the second
C2_Witness ==
    /\ Len(routes) = 2 /\ sent = 2
    /\ \A k \in DOMAIN loops : loops[k].pc = "recv"
    /\ Len(routerIn.buf) = 0
    /\ sinks[routes[1].out].buf = << 1 >> /\ drops[routes[1].name] = 1
    /\ sinks[routes[2].out].buf = << 2 >> /\ drops[routes[2].name] = 0

\* C5 as claimed: whatever Register and Start calls were made, no channel is
\* closed twice, nothing is sent on a closed channel, and a sink channel is
\* closed only when every routing loop has made its last push.
C5_ClosedExactlyOnce ==
    /\ panicked = ""
    /\ \A c \in Chans : sinks[c].closed => \A k \in DOMAIN loops : loops[k].pc = "exited"

\* C9: a Register call with an empty name, a nil channel or after a successful
\* Start returned an error and left the routes as they were; a call before
\* Start with a non-empty name that was not registered yet and a non-nil
\* channel returned nil and appended exactly the route (name, channel).
C9_RegisterRejects ==
    ret.op = "Register" =>
        IF ret.name = "" \/ ret.ch = "nil" \/ ret.startedBefore
        THEN ret.err # "" /\ routes = ret.routesBefore
        ELSE (\A i \in DOMAIN ret.routesBefore : ret.routesBefore[i].name # ret.name) =>
                (ret.err = "" /\ routes = Append(ret.routesBefore, route(ret.name, ret.ch)))

\* a Register with good arguments that was rejected because Start had succeeded
C9_Witness ==
    /\ ret.op = "Register" /\ ret.startedBefore
    /\ ret.name # "" /\ ret.ch # "nil"
    /\ ret.err # "" /\ Len(routes) = 1

\* C10 as claimed: the names of the routes are pairwise distinct, and a
\* Register with a name that was registered already returned an error.
C10_DistinctNames ==
    /\ \A i, j \in DOMAIN routes : i # j => routes[i].name # routes[j].name
    /\ (ret.op = "Register"
            /\ \E i \in DOMAIN ret.routesBefore : ret.routesBefore[i].name = ret.name)
          => ret.err # ""

----------------------------------------------------------------------------
(* Runner properties. *)

\* C4: once Start has succeeded and the shared input is closed, the output
\* of the pre-processing stage (when there is one), the output of the
\* redactor, the output of the batcher and the channel of every registered
\* processor are eventually all closed, whether or not the processors read.
C4_ShutdownPropagates ==
    (started /\ input.closed) ~>
        /\ (Len(preProcessors) # 0 => secretsIn.closed)
        /\ batchingIn.closed
        /\ routerIn.closed
        /\ \A i \in DOMAIN routes : sinks[routes[i].out].closed

\* a started pipeline with pre-processors and two processors, shut down while
\* a processor channel still holds a Batches nobody read
C4_Witness ==
    /\ started /\ input.closed /\ Len(preProcessors) # 0 /\ Len(routes) = 2
    /\ secretsIn.closed /\ batchingIn.closed /\ routerIn.closed
    /\ \A i \in DOMAIN routes : sinks[routes[i].out].closed
    /\ \E i \in DOMAIN routes : Len(sinks[routes[i].out].buf) > 0

\* C6 as claimed: an AddProcessor call made after Start was called returned
\* an error and left the routes of the router as they were.
C6_AddProcessorAfterStart ==
    (ret.op = "AddProcessor" /\ startCalls > 0) =>
        (ret.err # "" /\ routes = ret.routesBefore)

\* C7 as claimed: an AddReader call made after Start succeeded that returned
\* nil has called Run on its reader, and once Start has succeeded every
\* reader the Runner holds has been run.
C7_StaggeredReaders ==
    /\ (ret.op = "AddReader" /\ ret.startedBefore /\ ret.err = "") =>
            (runLog = << [reader |-> ret.reader, err |-> ""] >> /\ rd[ret.reader].started)
    /\ started => \A i \in DOMAIN readers : rd[readers[i]].started

\* C8: when Start has returned, the Run calls it made are those of a prefix
\* of the readers in registration order, every one but the last returned
\* nil; the router was started only if all readers were run and all returned
\* nil; if a Run failed, Start returned its error and the router was not
\* started; and every reader that was running before, or whose Run returned
\* nil, is running.
C8_StartSequencing ==
    ret.op = "Start" =>
        /\ Len(runLog) <= Len(readers)
        /\ \A i \in DOMAIN runLog : runLog[i].reader = readers[i]
        /\ \A i \in DOMAIN runLog : i < Len(runLog) => runLog[i].err = ""
        /\ Len(loops) > ret.loopsBefore =>
              (Len(runLog) = Len(readers) /\ \A i \in DOMAIN runLog : runLog[i].err = "")
        /\ (\E i \in DOMAIN runLog : runLog[i].err # "") =>
              (ret.err = runLog[Len(runLog)].err /\ Len(loops) = ret.loopsBefore)
        /\ (Len(runLog) = Len(readers) /\ (\A i \in DOMAIN runLog : runLog[i].err = "")
               /\ Len(routes) > 0) =>
              (ret.err = "" /\ Len(loops) = ret.loopsBefore + 1)
        /\ \A r \in Readers : ret.rdBefore[r].started => rd[r].started
        /\ \A i \in DOMAIN runLog : runLog[i].err = "" => rd[runLog[i].reader].started

\* Start on two readers of which the first fails: the second was not run, the
\* router was not started
C8_Witness ==
    /\ ret.op = "Start" /\ Len(readers) = 2 /\ readers[1] # readers[2]
    /\ Len(runLog) = 1 /\ runLog[1].err # ""
    /\ ~rd[readers[2]].started
    /\ Len(routes) > 0 /\ Len(loops) = 0 /\ ~started

----------------------------------------------------------------------------
(* Start properties. *)

\* C11 as claimed: a Start call on a router that Start had started already
\* returned an error and launched neither a routing loop nor a closer.
C11_StartIdempotent ==
    (ret.op = "routing.Start" /\ ret.startedBefore) =>
        /\ ret.err # ""
        /\ Len(loops) = ret.loopsBefore
        /\ Len(closers) = ret.loopsBefore

\* C12: a Start call on a router without routes returns an error, leaves the
\* input as it is, launches neither a routing loop nor a closer and leaves
\* the router unstarted, so that a Register with good arguments is accepted;
\* a Start call on a router with routes returns nil and closes no sink
\* channel; and no sink channel is closed while the input is open.
C12_StartNeedsRoutes ==
    /\ [](~routerIn.closed => \A c \in Chans : ~sinks[c].closed)
    /\ [][(ret'.op = "routing.Start" /\ ret' # ret) =>
            IF Len(routes) = 0
            THEN /\ ret'.err # ""
                 /\ routerIn' = routerIn
                 /\ loops' = loops /\ closers' = closers
                 /\ ~started'
                 /\ \A n \in Names \ {""}, c \in Chans : RegisterResult(started', n, c) = ""
            ELSE /\ ret'.err = ""
                 /\ started'
                 /\ sinks' = sinks
         ]_vars

\* Start has failed on a router without routes while a Batches was waiting
\* on the input; the Batches is still there and the router is not started
C12_Witness ==
    /\ ret.op = "routing.Start" /\ ret.err # ""
    /\ Len(routes) = 0 /\ ~started /\ Len(loops) = 0
    /\ Len(routerIn.buf) = 1

\* C13 as claimed: a Runner.Start call made after a Start that succeeded
\* returned an error, made no Run call and started no routing loop.
C13_RunnerStartTwice ==
    (ret.op = "Start" /\ ret.startedBefore) =>
        /\ ret.err # ""
        /\ runLog = <<>>
        /\ Len(loops) = ret.loopsBefore

----------------------------------------------------------------------------
(* Reader properties. *)

\* C14: a SetOut call on a reader whose Run has succeeded returned an error
\* and left the reader's channel as it was; a SetOut call on a reader whose
\* Run has not succeeded returned nil and made its argument the reader's
\* channel; nothing but a successful SetOut changes the reader's channel; and
\* a handler of the reader sends its entry on that channel and on no other.
C14_SetOut ==
    /\ [](ret.op = "SetOut" =>
            IF ret.before.started
            THEN ret.err # "" /\ rd[ret.reader].ch = ret.before.ch
            ELSE ret.err = "" /\ rd[ret.reader].ch = ret.ch)
    /\ [][/\ \A r \in Readers :
                rd'[r].ch # rd[r].ch =>
                    (ret'.op = "SetOut" /\ ret'.reader = r /\ ret'.err = "")
          /\ (ret'.op = "handler" /\ sent' = sent + 1) =>
                IF rd[ret'.reader].ch = "input"
                THEN Len(input'.buf) = Len(input.buf) + 1 /\ other' = other
                ELSE Len(other'.buf) = Len(other.buf) + 1 /\ input' = input
         ]_vars

\* a SetOut with another channel was refused by a running reader, which has
\* published on the channel it was given before Run
C14_Witness ==
    /\ ret.op = "SetOut" /\ ret.before.started /\ ret.err # ""
    /\ ret.ch = "other" /\ rd[ret.reader].ch = "input"
    /\ Len(input.buf) > 0 /\ Len(other.buf) = 0

\* C15: no reader ever has more than one producer; a Run call on a started
\* reader returned an error and changed neither its flag, its channel nor
\* its producers; a Run call on a reader without a channel returned an
\* error and left it not started; a Run call that returned an error on a
\* reader that was not started left it not started, with SetOut accepted
\* and, once it has a channel, Run accepted; a Run call that returned nil
\* was made on a reader that was not started and started it.
C15_RunOnce ==
    /\ \A r \in Readers : rd[r].producers + rd[r].stopping <= 1
    /\ ret.op = "Run" =>
         LET b == ret.before
             a == rd[ret.reader]
         IN /\ b.started =>
                 (ret.err # "" /\ a.started /\ a.ch = b.ch
                    /\ a.producers + a.stopping <= b.producers + b.stopping)
            /\ (~b.started /\ b.ch = "nil") => (ret.err # "" /\ ~a.started)
            /\ (~b.started /\ ret.err # "") =>
                 /\ ~a.started
                 /\ SetOutResult(a) = ""
                 /\ a.ch # "nil" => RunResult(a, FALSE) = ""
            /\ ret.err = "" => (~b.started /\ a.started)

\* a Run that failed because Close had closed r.stop: the reader is not
\* started and its stop channel is open again
C15_Witness ==
    /\ ret.op = "Run" /\ ret.err = "failed to sync cache"
    /\ ret.before.stopClosed
    /\ ~rd[ret.reader].started /\ ~rd[ret.reader].stopClosed

\* C16 as claimed: with the host closing no channel, the channels given to
\* SetOut are never closed and no handler sends on a closed channel.
C16_ReadersNeverClose ==
    /\ ~input.closed
    /\ ~other.closed
    /\ panicked # "send on closed channel"

-----------------------------------------------------------------------------
\* Batcher ticks

\* what the batcher put on its output channel is never an empty Batches
EmittedNonEmpty ==
    /\ b_pc = "emit" => DOMAIN heapBatches[b_held] # {}
    /\ \A i \in 1..Len(routerIn.buf) : DOMAIN heapBatches[routerIn.buf[i]] # {}

\* a step taken while the batcher waits in its select with an empty current and
\* without a receive from its input
EmptyWindowStep ==
    /\ b_pc = "select"
    /\ DOMAIN heapBatches[current] = {}
    /\ ~RecvClosed(batchingIn)
    /\ Len(batchingIn'.buf) >= Len(batchingIn.buf)

\* C17: when the tick fires and current has no keys, nothing is sent on the
\* output channel, no error is reported, the batcher does not exit and current
\* is unchanged: a step from an empty window that is not a receive appends
\* nothing to the output, leaves it open, leaves the error count, the batcher's
\* position and current as they were; and nothing emitted is ever empty.
C17_EmptyWindowEmitsNothing ==
    /\ []EmittedNonEmpty
    /\ [][EmptyWindowStep =>
            /\ Len(routerIn'.buf) <= Len(routerIn.buf)
            /\ routerIn'.closed = routerIn.closed
            /\ errLog' = errLog
            /\ b_pc' = "select"
            /\ current' = current
            /\ heapBatches'[current] = heapBatches[current]]_vars

\* the tick can fire on an empty window, after an earlier window was emitted
\* and is still with the consumer
C17_Witness ==
    /\ panicked = "" /\ b_pc = "select"
    /\ DOMAIN heapBatches[current] = {}
    /\ ~RecvClosed(batchingIn) /\ ~CanRecv(batchingIn)
    /\ consumerHeld # {}
    /\ ~routerIn.closed

\* C18: when the tick fires and current is non-empty, exactly the current
\* Batches is sent on the output channel, and right after the emission current
\* is an empty Batches that is another map than the emitted one, also after
\* consumers recycled the Batches they received.
C18_EmitOnTick ==
    /\ [](b_pc = "emit" => current # b_held /\ DOMAIN heapBatches[current] = {})
    /\ [][(b_pc = "select" /\ b_pc' = "emit") =>
            /\ DOMAIN heapBatches[current] # {}
            /\ b_held' = current
            /\ current' # current
            /\ DOMAIN heapBatches'[current'] = {}
            /\ heapBatches'[current] = heapBatches[current]]_vars
    /\ [][(b_pc = "emit" /\ b_pc' = "select") =>
            /\ routerIn'.buf = Append(routerIn.buf, b_held)
            /\ heapBatches'[b_held] = heapBatches[b_held]
            /\ current' = current /\ current' # b_held
            /\ DOMAIN heapBatches'[current'] = {}]_vars

\* a window was emitted and the new current is a map that came back from the
\* pool after a consumer recycled it
C18_Witness ==
    /\ b_pc = "select"
    /\ Len(routerIn.buf) > 0
    /\ current < routerIn.buf[Len(routerIn.buf)]
    /\ DOMAIN heapBatches[current] = {}

-----------------------------------------------------------------------------
\* Change constructors

\* the ObjectType of a Kubernetes kind
KindTag(T) ==
    CASE T = "Node" -> OTNode
      [] T = "Pod" -> OTPod
      [] T = "Namespace" -> OTNamespace
      [] T = "PersistentVolume" -> OTPersistentVolume
      [] OTHER -> OTUnknown

\* the shape a change of type ct must have
ValidShape(new, old, ct) ==
    \/ ct = CTAdd /\ ~new.nil /\ old.nil
    \/ ct = CTUpdate /\ ~new.nil /\ ~old.nil
    \/ ct = CTDelete /\ ~old.nil /\ new.nil

\* C19: for every kind, every ChangeType and every zero/non-zero combination
\* of (new, old), NewChange returns a Change exactly when the shape fits the
\* ChangeType, that Change carrying the ObjectType of the kind; for every other
\* input it returns the InvalidType error and the zero Change.
C19_NewChangeValidation ==
    ret.op = "NewChange" =>
        IF ValidShape(ret.new, ret.old, ret.ct)
        THEN /\ ret.err = ""
             /\ ret.val = Change(ret.T, ret.old, ret.new, ret.ct, KindTag(ret.T))
        ELSE /\ ret.err = "invalid type"
             /\ ret.val = ZeroChange(ret.T)

\* a Change that breaks one of the invariants of the data model
BreaksInvariant(c) ==
    \/ c.ChangeType = CTUnknown \/ c.ObjectType = OTUnknown
    \/ ~ValidShape(c.New, c.Old, c.ChangeType)
    \/ c.ObjectType # KindTag(c.T)

\* C20: NewInformer and NewPersistentVolume return an error for every Change
\* that breaks an invariant of the data model; NewInformer accepts the tags
\* Node, Pod and Namespace only, NewPersistentVolume the tag PersistentVolume
\* only, and the Type of what they build agrees with the payload type.
C20_ConstructorsEnforce ==
    ret.op \in {"NewInformer", "NewPersistentVolume"} =>
        /\ BreaksInvariant(ret.change) => ~ret.ok
        /\ ret.ok =>
              /\ ret.val.Type = KindTag(ret.change.T)
              /\ ret.op = "NewInformer" => ret.val.Type \in {OTNode, OTPod, OTNamespace}
              /\ ret.op = "NewPersistentVolume" => ret.val.Type = OTPersistentVolume

\* C21: for every Entry built from a valid Change, UID() is New's UID when the
\* ChangeType is Add or Update and Old's UID when it is Delete; an Entry with
\* no inner data returns the empty UID.
C21_EntryUID ==
    ret.op = "Entry.UID" =>
        /\ ret.entry.data.src = "nil" => ret.uid = ""
        /\ (ret.entry.data.src # "nil" /\ ~BreaksInvariant(ret.change)) =>
              /\ ret.change.ChangeType \in {CTAdd, CTUpdate} => ret.uid = ret.change.New.uid
              /\ ret.change.ChangeType = CTDelete => ret.uid = ret.change.Old.uid
              /\ ret.uid # ""

\* UID() was called on an Entry built from a valid Delete change
C21_Witness ==
    /\ ret.op = "Entry.UID"
    /\ ret.entry.Type = ETPersistentVolume
    /\ ~BreaksInvariant(ret.change)
    /\ ret.change.ChangeType = CTDelete
    /\ ret.uid = "u2"

-----------------------------------------------------------------------------
\* Batches.Iter

\* the entries of every inner Batch of the Batches Iter was called on
IterAll == UNION { Range(heapBatch[b]) : b \in Range(heapBatches[iter.ref]) }

\* what the producer has put on the channel so far, in order
IterYielded == iter.got \o iter.ch.buf

NoEntryTwice(seq) == \A i, j \in 1..Len(seq) : seq[i] = seq[j] => i = j

\* the channel is closed and drained and the consumer got every entry once
IterComplete ==
    /\ iter.ch.closed /\ iter.ch.buf = <<>>
    /\ NoEntryTwice(iter.got)
    /\ Range(iter.got) = IterAll

\* C22: with a context that is never cancelled and a consumer that drains the
\* channel, Iter yields each entry of each inner Batch exactly once, in any
\* order, and then closes the channel; iteration does not modify the Batches.
C22_IterCompleteness ==
    /\ []((iter.ch.closed /\ ~iter.done) => Range(IterYielded) = IterAll)
    /\ [](iter.pc # "none" => NoEntryTwice(IterYielded))
    /\ [][heapBatches' = heapBatches /\ heapBatch' = heapBatch]_vars
    /\ (iter.pc = "range") ~> (iter.done \/ IterComplete)

\* an iteration over two Batch maps of two entries each ran to its end,
\* never cancelled
C22_Witness ==
    /\ ~iter.done /\ IterComplete
    /\ Len(iter.got) = 4

\* C23: once ctx is cancelled, the producer stops and closes the channel in
\* finitely many steps even if the consumer never receives again, and what was
\* yielded before the close is part of the union of the inner Batches, no
\* entry twice.
C23_IterCancellation ==
    /\ [](iter.pc # "none" =>
            NoEntryTwice(IterYielded) /\ Range(IterYielded) \subseteq IterAll)
    /\ [](iter.ch.closed => iter.pc = "done")
    /\ (iter.done /\ iter.pc # "none") ~> (iter.pc = "done" /\ iter.ch.closed)

\* the producer was stopped by the cancellation with entries left to yield
C23_Witness ==
    /\ iter.done /\ iter.pc = "done" /\ iter.ch.closed
    /\ iter.inner # {}
    /\ Len(IterYielded) < Cardinality(IterAll)

-----------------------------------------------------------------------------
\* Recycle and the pools

\* every map that sits in a pool has no keys, so whatever Get hands out is empty
PooledMapsEmpty ==
    /\ \A r \in BagToSet(batchesPool) : DOMAIN heapBatches[r] = {}
    /\ \A r \in BagToSet(batchPool) : DOMAIN heapBatch[r] = {}

\* the step is Recycle(ref): the consumer gives ref up and the Batches pool grows
IsRecycle(ref) ==
    /\ ref \in consumerHeld /\ ref \notin consumerHeld'
    /\ batchesPool' # batchesPool

\* C24: after Recycle(b), b has no keys, every Batch that was a value of b has
\* no keys and has been put into the Batch pool, and b into the Batches pool;
\* every map the batcher later takes from either pool is empty when taken.
C24_RecycleClearsAndPools ==
    /\ []PooledMapsEmpty
    /\ [][\A ref \in consumerHeld : IsRecycle(ref) =>
            /\ DOMAIN heapBatches'[ref] = {}
            /\ \A r \in Range(heapBatches[ref]) : DOMAIN heapBatch'[r] = {}
            /\ batchPool' = batchPool (+) RangeBag(heapBatches[ref])
            /\ batchesPool' = batchesPool (+) SetToBag({ref})]_vars
    /\ [][\A r \in BagToSet(batchesPool) :
            (current' = r /\ current # r) => DOMAIN heapBatches[r] = {}]_vars
    /\ [][\A b \in BagToSet(batchPool) :
            (b \in Range(heapBatches'[current]) /\ b \notin Range(heapBatches[current]))
                => DOMAIN heapBatch[b] = {}]_vars

\* the batcher's current is a Batches it took from the pool after a Recycle,
\* and it has stored an entry in a Batch it took from the Batch pool
C24_Witness ==
    /\ current = 1 /\ Len(heapBatches) > 1
    /\ DOMAIN heapBatches[current] # {}
    /\ Len(heapBatch) = 1

-----------------------------------------------------------------------------
\* Scenario S5

\* C25 as stated: the Batches emitted for the window Add(Node n1), Add(Pod p1),
\* Delete(Node n1) has one key for the Node, mapped to the batch {n1: Delete},
\* and another key for the Pod, mapped to the batch {p1: Add}.
C25_S5_KeyedByKind ==
    (b_pc = "emit" /\ window = S5Feed) =>
        \E node, pod \in DOMAIN Deref(b_held) :
            /\ node # pod
            /\ DOMAIN Deref(b_held) = {node, pod}
            /\ Deref(b_held)[node] = [u \in {"n1"} |-> S5DeleteNode]
            /\ Deref(b_held)[pod] = [u \in {"p1"} |-> S5AddPod]

\* C25: the Batches emitted for the window Add(Node n1), Add(Pod p1),
\* Delete(Node n1) has the one key Informer, the EntryType of all three
\* entries, mapped to the batch {n1: Delete, p1: Add}.
C25_S5_MixedKinds ==
    (b_pc = "emit" /\ window = S5Feed) =>
        /\ DOMAIN Deref(b_held) = {ETInformer}
        /\ Deref(b_held)[ETInformer] =
              [u \in {"n1", "p1"} |-> IF u = "n1" THEN S5DeleteNode ELSE S5AddPod]

\* the three entries were received within one window and the window is
\* being emitted
C25_Witness ==
    /\ b_pc = "emit" /\ window = S5Feed
    /\ DOMAIN heapBatches[b_held] # {}

-----------------------------------------------------------------------------
\* Reader event handlers

\* C26: no pipeline stage and no reader handler panics, whatever its input:
\* bad input is reported as a returned error or a logged drop.
C26_NoPanics == panicked = ""

\* the Change an event stands for
EventChange(handler, oldObj, newObj) ==
    Change("PersistentVolume",
           IF handler = "add" THEN NilObj ELSE oldObj.obj,
           IF handler = "delete" THEN NilObj ELSE newObj.obj,
           CASE handler = "add" -> CTAdd [] handler = "delete" -> CTDelete [] OTHER -> CTUpdate,
           OTPersistentVolume)

\* the objects of the event that the handler looks at
EventArgs(handler, oldObj, newObj) ==
    CASE handler = "add" -> {newObj}
      [] handler = "delete" -> {oldObj}
      [] OTHER -> {oldObj, newObj}

\* the event must take the error path: an object is nil, of a type the reader
\* does not support, or old and new differ in type
MustFail(handler, oldObj, newObj) ==
    \/ \E o \in EventArgs(handler, oldObj, newObj) : o.kind # "PersistentVolume" \/ o.obj.nil
    \/ handler = "update" /\ oldObj.kind # newObj.kind

\* C27: for every add, update or delete event, either exactly one Entry is
\* sent on the output channel, wrapping a valid Change with the change type
\* and the objects of the event, or an error is returned and nothing is sent;
\* nil objects, unsupported types and updates whose objects differ in type
\* take the error path.
C27_AllOrNothing ==
    [][(ret'.op = "event" /\ sent' = sent + 1) =>
        /\ \/ /\ ret'.err = "" /\ panicked' = ""
              /\ input'.buf = Append(input.buf, ret'.entry)
              /\ ret'.entry.data.data = EventChange(ret'.handler, ret'.old, ret'.new)
              /\ ~BreaksInvariant(ret'.entry.data.data)
              /\ ret'.entry.Type = ETPersistentVolume
           \/ /\ ret'.err # "" /\ panicked' = ""
              /\ input'.buf = input.buf
        /\ MustFail(ret'.handler, ret'.old, ret'.new) => ret'.err # ""]_vars

-----------------------------------------------------------------------------
\* The router and its sinks

\* the routing loop the one Start of the pipeline launched is at pc
RouterAt(pc) == Len(loops) > 0 /\ loops[1].pc = pc

\* C28: the router never blocks on a sink: once it has taken a Batches from
\* its input it finishes its delivery attempts and is back at reading its
\* input after finitely many steps, whether or not the processors ever read;
\* so the batcher's send of an emitted Batches completes once the router runs.
C28_RouterNeverBlocks ==
    /\ RouterAt("push") ~> RouterAt("recv")
    /\ (Len(loops) > 0 /\ b_pc = "emit") ~> (b_pc = "select")

\* the router dropped a Batches for a sink nobody reads, went back to its
\* input, and the batcher is past its send
C28_Witness ==
    /\ Len(loops) > 0 /\ loops[1].pc = "recv"
    /\ b_pc = "select"
    /\ \E i \in DOMAIN routes :
         drops[routes[i].name] > 0 /\ Len(sinks[routes[i].out].buf) = SinkCap

\* what a sink has been handed so far, in order: what its processor received
\* and what waits in its channel
Delivered(c) == received[c] \o sinks[c].buf

\* the sequence is a subsequence of 1, 2, ..., n: the Batches the batcher
\* emitted, in emission order, none twice
SubsequenceOfEmitted(seq, n) ==
    /\ \A i \in 1..Len(seq) : seq[i] \in 1..n
    /\ \A i, j \in 1..Len(seq) : i < j => seq[i] < seq[j]

\* the router has nothing left to deliver of what was put on its input
RouterIdle ==
    /\ routerIn.buf = <<>>
    /\ \A k \in DOMAIN loops : loops[k].pc # "push"

\* C29: the Batches each sink receives are a subsequence of the emitted
\* sequence, in emission order and none twice; a sink for which nothing was
\* dropped has been handed exactly the emitted sequence.
C29_PerSinkOrder ==
    \A i \in DOMAIN routes :
        /\ SubsequenceOfEmitted(Delivered(routes[i].out), sent)
        /\ (started /\ RouterIdle /\ drops[routes[i].name] = 0) =>
              Delivered(routes[i].out) = [n \in 1..sent |-> n]

\* two sinks and three Batches: one sink lost the second Batches and got the
\* first and the third, the other got all three
C29_Witness ==
    /\ sent = 3 /\ RouterIdle
    /\ \E i, j \in DOMAIN routes :
         /\ Delivered(routes[i].out) = << 1, 3 >> /\ drops[routes[i].name] = 1
         /\ Delivered(routes[j].out) = << 1, 2, 3 >> /\ drops[routes[j].name] = 0

\* C30: cancelling the context given to New or Start neither stops the routing
\* nor closes a sink: the routing loop ends and a sink is closed only after
\* the router input was closed, and a Batches put on the input after the
\* cancellation is still taken and pushed to the sinks.
C30_RouterIgnoresCancel ==
    /\ [](\A c \in Chans : sinks[c].closed => routerIn.closed)
    /\ [](\A k \in DOMAIN loops : loops[k].pc = "exited" => routerIn.closed)
    /\ [][\A i \in DOMAIN routes :
            (ctx.done /\ RouterAt("push") /\ loops[1].i = i /\ loops' # loops
             /\ Len(sinks[routes[i].out].buf) < SinkCap)
                => sinks'[routes[i].out].buf = Append(sinks[routes[i].out].buf, loops[1].b)]_vars
    /\ (ctx.done /\ started /\ Len(routerIn.buf) > 0) ~> RouterAt("push")
    /\ RouterAt("push") ~> RouterAt("recv")

\* a processor received a Batches that was put on the router input after the
\* context was cancelled, the input still being open
C30_Witness ==
    /\ ctx.done /\ ~routerIn.closed
    /\ \E c \in Chans : \E i \in DOMAIN received[c] : received[c][i] > ctx.at

----------------------------------------------------------------------------
(* The Runner under concurrent callers. *)

\* C31 as claimed: r.mu is not held across a reader's Run: a caller that is
\* blocked in cache.WaitForCacheSync inside Reader.Run does not hold the
\* mutex, so another caller's AddProcessor or AddReader can take it.
C31_MutexFreeDuringRun ==
    \A t \in Callers : calls[t].pc = "sync" => mu # t

----------------------------------------------------------------------------
(* Order and loss in the stages in front of the batcher. *)

RECURSIVE Redacted(_)
\* what the redactor forwards of a sequence of entries: the entries it can
\* decode, scrubbed, in their order
Redacted(seq) ==
    IF seq = <<>> THEN <<>>
    ELSE LET r == entryRouter(Head(seq))
         IN (IF r.drop THEN <<>> ELSE << r.val >>) \o Redacted(Tail(seq))

\* the entries the stage that reads the shared input has taken from it
TakenFromInput == SubSeq(fed, 1, Len(fed) - Len(input.buf))

\* the entries the redactor has sent or is about to send, in order
RedactorOut ==
    drained \o batchingIn.buf \o (IF s_pc = "send" THEN << s_held >> ELSE <<>>)

\* C32: the redactor is FIFO and lossless: what it has sent, with the entry it
\* is sending, is the scrubbed sequence of the entries it received and could
\* decode, in input order and none twice; and its output is closed only when
\* the input is closed and every entry sent on it was forwarded or dropped.
C32_RedactorFifo ==
    /\ RedactorOut = Redacted(TakenFromInput)
    /\ batchingIn.closed =>
          /\ input.closed /\ input.buf = <<>> /\ s_pc = "done"
          /\ drained \o batchingIn.buf = Redacted(fed)

\* three entries went in, the second was dropped for a decode failure, the
\* other two came out in order, and the output is closed
C32_Witness ==
    /\ Len(fed) = 3 /\ entryRouter(fed[2]).drop
    /\ Len(drained) = 2 /\ drained[1] # drained[2]
    /\ drained[1] # fed[1]
    /\ batchingIn.closed

\* an entry the redactor cannot decode: its Type is Informer and its data is
\* not an Informer, or its ObjectType is Pod and its object is not a Pod
Undecodable(e) ==
    /\ e.Type = ETInformer
    /\ \/ e.data.src # "Informer"
       \/ e.data.Type = OTPod /\ e.data.data.T # "Pod"

\* C33: when the redactor takes an entry it cannot decode from its input, it
\* logs an error, sends nothing and is back at reading its input; no such
\* entry is ever sent on its output.
C33_DropOnDecodeFailure ==
    /\ [][(s_pc = "recv" /\ CanRecv(input) /\ input'.buf = Tail(input.buf)
             /\ Undecodable(Head(input.buf)))
           => /\ errLog'.secrets = errLog.secrets + 1
              /\ s_pc' = "recv" /\ s_held' = s_held
              /\ batchingIn' = batchingIn]_vars
    /\ [](\A i \in DOMAIN RedactorOut : ~Undecodable(RedactorOut[i]))

\* the first entry was dropped with an error logged, and the entry sent after
\* it came out of the redactor
C33_Witness ==
    /\ Len(fed) >= 2 /\ Undecodable(fed[1]) /\ ~Undecodable(fed[2])
    /\ errLog.secrets = 1
    /\ drained = << entryRouter(fed[2]).val >>

\* every configured processor returns nil on the entry
Passes(e) == \A i \in DOMAIN preProcessors : ~ProcErr(preProcessors[i], e)

RECURSIVE Accepted(_)
\* the entries of a sequence that every configured processor accepts, in order
Accepted(seq) ==
    IF seq = <<>> THEN <<>>
    ELSE (IF Passes(Head(seq)) THEN << Head(seq) >> ELSE <<>>) \o Accepted(Tail(seq))

\* the entries the pre-processing stage has sent or is about to send, in order
PreprocOut ==
    drained \o secretsIn.buf \o (IF pp_pc = "send" THEN << pp_held >> ELSE <<>>)

\* C34: for the entry the pre-processing stage takes, the processors called
\* are a prefix of the configured ones in their order, each but the last
\* returned nil; if the last returned an error it is logged and the entry is
\* not forwarded, else all were called and the entry is forwarded; what the
\* stage forwards is, once each and in input order, the entries all
\* processors accept.  Without processors there is no stage: its output is
\* never used and the redactor reads the shared input.
C34_PreprocessChain ==
    /\ [][(pp_pc = "recv" /\ CanRecv(input) /\ input'.buf = Tail(input.buf))
           => LET e == Head(input.buf)
                  n == Len(pp_calls')
              IN /\ n >= 1 /\ pp_calls' = SubSeq(preProcessors, 1, n)
                 /\ \A i \in 1..(n - 1) : ~ProcErr(preProcessors[i], e)
                 /\ ProcErr(preProcessors[n], e) =>
                       /\ errLog'.preprocess = errLog.preprocess + 1
                       /\ pp_pc' = "recv" /\ secretsIn' = secretsIn
                 /\ ~ProcErr(preProcessors[n], e) =>
                       /\ n = Len(preProcessors) /\ errLog' = errLog
                       /\ pp_pc' = "send" /\ pp_held' = e]_vars
    /\ [](Len(preProcessors) > 0 => PreprocOut = Accepted(TakenFromInput))
    /\ [](Len(preProcessors) = 0 =>
            /\ pp_pc = "none" /\ secretsIn = NewChan
            /\ RedactorOut = Redacted(TakenFromInput))

\* of three entries the second was refused by the second processor after the
\* first had accepted it; the other two were forwarded in order
C34_Witness ==
    /\ Len(preProcessors) > 0
    /\ Len(fed) = 3 /\ ~ProcErr(preProcessors[1], fed[2]) /\ ProcErr(preProcessors[2], fed[2])
    /\ errLog.preprocess = 1
    /\ drained = << fed[1], fed[3] >> /\ fed[1] # fed[3]

----------------------------------------------------------------------------
(* The batcher and the entries it cannot key. *)

\* the batcher takes the entry at the head of its input
BatcherTakes ==
    b_pc = "select" /\ CanRecv(batchingIn) /\ batchingIn'.buf = Tail(batchingIn.buf)

\* C35: when the batcher takes an entry whose UID() is empty, an error is
\* reported, the batcher stays in its loop, and current is the same map with
\* the same keys and the same entries; nothing is put on the output.  Only
\* entries with a UID are ever stored, and an emission is always of a window
\* that stored at least one of them.
C35_EmptyUIDDropped ==
    /\ [][(BatcherTakes /\ UID(Head(batchingIn.buf)) = "")
           => /\ errLog'.batcher = errLog.batcher + 1
              /\ b_pc' = "select"
              /\ current' = current
              /\ Deref(current)' = Deref(current)
              /\ routerIn' = routerIn /\ b_held' = b_held]_vars
    /\ [](\A t \in DOMAIN Deref(current) : "" \notin DOMAIN Deref(current)[t])
    /\ [](b_pc = "emit" => \E i \in DOMAIN window : UID(window[i]) # "")

\* the batcher reported an entry without UID while current held an entry,
\* and current still holds it
C35_Witness ==
    /\ errLog.batcher = 1 /\ b_pc = "select"
    /\ Len(window) = 1
    /\ \E t \in DOMAIN Deref(current) : Deref(current)[t] # EmptyMap
    /\ sent = 3 /\ batchingIn.buf = <<>>

\* C36: the step in which the batcher finds its input closed closes the
\* output and ends the batcher without putting anything on the output; from
\* then on the batcher takes no step, the entries stored since the last
\* emission stay where they are, and a closed output never gets a new element.
C36_NoFinalFlush ==
    /\ [][(b_pc = "select" /\ b_pc' = "done")
           => /\ RecvClosed(batchingIn)
              /\ routerIn'.closed /\ routerIn'.buf = routerIn.buf
              /\ current' = current /\ Deref(current)' = Deref(current)]_vars
    /\ [][b_pc = "done"
           => /\ b_pc' = "done" /\ window' = window /\ b_held' = b_held
              /\ current' = current]_vars
    /\ [][routerIn.closed
           => /\ routerIn'.closed
              /\ Len(routerIn'.buf) <= Len(routerIn.buf)
              /\ \A i \in DOMAIN routerIn'.buf :
                   routerIn'.buf[i] = routerIn.buf[i + Len(routerIn.buf) - Len(routerIn'.buf)]]_vars
    /\ [](b_pc = "done" => routerIn.closed /\ b_held = 0)

\* the batcher has ended with an entry stored in current that was never
\* emitted; the output is closed and the consumer has drained it
C36_Witness ==
    /\ b_pc = "done" /\ routerIn.closed /\ routerIn.buf = <<>>
    /\ Len(window) > 0
    /\ \E t \in DOMAIN Deref(current) : Deref(current)[t] # EmptyMap

----------------------------------------------------------------------------
(* From the shared input to the batcher's output. *)

\* an entry the pipeline is to carry to the batcher's output: it has a UID,
\* the redactor can decode it and no configured processor refuses it
Carried(e) == UID(e) # "" /\ ~Undecodable(e) /\ Passes(e)

\* the same event, before or after redaction: same type, UID and kind of change
SameEvent(a, b) ==
    /\ a.Type = b.Type /\ UID(a) = UID(b)
    /\ a.data.data.ChangeType = b.data.data.ChangeType

\* the entry is in a channel or held by a stage in front of the batcher
OnItsWay(e) ==
    \/ e \in Elements(input.buf)
    \/ pp_pc = "send" /\ pp_held = e
    \/ e \in Elements(secretsIn.buf)
    \/ s_pc = "send" /\ s_in = e
    \/ \E x \in Elements(batchingIn.buf) : SameEvent(x, e)

\* the entries sent on the shared input from e on
FromOn(e) ==
    { fed[j] : j \in { k \in DOMAIN fed : \E i \in 1..k : fed[i] = e } }

\* the batcher is emitting a Batches that holds, under the type and UID of
\* e, the entry e or one sent after it
EmitsOrSupersedes(e) ==
    /\ b_pc = "emit"
    /\ BatchKey(e) \in DOMAIN Deref(b_held)
    /\ UID(e) \in DOMAIN Deref(b_held)[BatchKey(e)]
    /\ \E x \in FromOn(e) : SameEvent(Deref(b_held)[BatchKey(e)][UID(e)], x)

CarriedPods(e) == { o \in { e.data.data.Old, e.data.data.New } : ~o.nil }

\* no env var of the pod has a credential name and a value other than REDACTED
PodRedacted(p) ==
    \A c \in DOMAIN p.containers : \A i \in DOMAIN p.containers[c] :
        IsCredentialName(p.containers[c][i].Name) =>
            p.containers[c][i].Value = "REDACTED"

\* C38: no credential leaves the redactor in any carried Pod state: in every Pod
\* entry the redactor is about to send or has sent to the batcher's input, every
\* Pod object reachable from the entry, the Old object of an Update included,
\* has REDACTED as the value of every env var with a credential name.
C38_NoCredentialLeaves ==
    \A e \in (IF s_pc = "send" THEN {s_held} ELSE {}) \cup Elements(batchingIn.buf) :
        (IsInformerPod(e) /\ e.data.data.T = "Pod") =>
            \A p \in CarriedPods(e) : PodRedacted(p)

\* the Batches the processor of c2 received; it has recycled none of them
HeldByReader == Elements(received["c2"])

\* C39: with two sinks registered, a Batches delivered to a sink is not
\* modified while that sink has not called Recycle on it, whatever the batcher
\* emits, whatever entries arrive and whenever the other sink recycles the
\* Batches it received; and the batcher's current is never a Batches that a
\* sink still holds.
C39_NotMutatedUnderReader ==
    /\ [](current \notin HeldByReader)
    /\ [][\A ref \in HeldByReader : Deref(ref)' = Deref(ref)]_vars

\* key agreement of a Batches: every entry is stored under its own Type and
\* its own UID, no UID key is empty and no Batch is empty
KeyAgreement(ref) ==
    \A T \in DOMAIN Deref(ref) :
        /\ DOMAIN Deref(ref)[T] # {}
        /\ \A k \in DOMAIN Deref(ref)[T] :
             /\ Deref(ref)[T][k].Type = T
             /\ UID(Deref(ref)[T][k]) = k
             /\ k # ""

\* C40: in every reachable state of the batcher, for every EntryType T and
\* UID k with current[T][k] defined the stored entry has Type T and UID k, k
\* is not empty and every Batch stored in current is non-empty; the same holds
\* for the Batches the batcher is about to send, at the moment of emission.
C40_KeyAgreement ==
    /\ KeyAgreement(current)
    /\ b_pc = "emit" => KeyAgreement(b_held)

\* a Batches with entries under two EntryTypes is about to be sent, the same
\* UID under both, after an entry without UID was refused
C40_Witness ==
    /\ b_pc = "emit" /\ errLog.batcher > 0
    /\ Cardinality(DOMAIN Deref(b_held)) = 2
    /\ \E k \in {"u1"} : \A T \in DOMAIN Deref(b_held) : k \in DOMAIN Deref(b_held)[T]

====
